---- MODULE Spec2Model ----
(***************************************************************************)
(* Bulk import/export API: the job registry (pkg/jobs), the idempotency    *)
(* ledger, the streaming import/export pipelines (pkg/streaming), the      *)
(* validator (internal/validation), the request handlers and the cleanup   *)
(* routine of cmd/server/main.go.                                          *)
(*                                                                         *)
(* Time is counted in ticks of the cleanup ticker (one hour).  Batch size, *)
(* the error-log cap and the job retention age are scaled down; the code's *)
(* arithmetic on them is kept.                                             *)
(***************************************************************************)
EXTENDS Integers, Sequences, FiniteSets, TLC

VARIABLES
    now,         \* wall clock, in ticker periods
    sweeper,     \* position of startCleanupRoutine
    importJobs,  \* JobManager.importJobs : id -> ImportJob
    exportJobs,  \* JobManager.exportJobs : id -> ExportJob
    nextId,      \* number of job ids handed out so far (uuid.New is fresh)
    keys,        \* IdempotencyManager.keys : key -> job id
    keyTime,     \* history: the time at which each ledger entry was written
    req,         \* one record per POST /v1/imports request in flight
    imp,         \* one record per ProcessImportJob goroutine
    exp,         \* one record per ProcessExportJob goroutine
    db,          \* the relational store: users, articles, comments
    files,       \* the export directory: file name -> the lines written
    stream,      \* the GET /v1/exports request in flight and its response body
    snap,        \* the snapshot a caller of GetImportJob / GetExportJob holds
    mrec         \* a record of package models and the method calls made on it

vars == <<now, sweeper, importJobs, exportJobs, nextId, keys, keyTime, req, imp, exp, db,
          files, stream, snap, mrec>>

(***************************************************************************)
(* Bounds of the model.                                                    *)
(***************************************************************************)
\* scaled streaming.BatchSize (1000 in the code); the literal 1000 of the
\* import progress estimate and the 10000 of the export estimate scale with it
BatchSize == 2
\* lines read from one import file
MaxRows == 3
\* scaled half of the error-log cap (500 in the code; the cap is twice that)
ErrHalf == 2
\* last tick of the clock
MaxTime == 1
\* last tick of the clock in the idempotency scenario
MaxTimeIdem == 2
\* scaled retention age of jobs, in ticks (24 in the code)
JobMaxAge == 0
\* the most errors one UpdateImportJob call delivers, and the most errors
\* delivered to one job, in the error-list scenario
MaxCall == 5
MaxDelivered == 18
\* lines read from the longer import file when two imports run together
MaxRowsEach == 2

\* writes a caller makes to one snapshot
MaxWrites == 1

\* calls made on one record of package models
MaxCalls == 3

\* scaled number of rows between two flushes of a streaming export (100 in
\* the code)
FlushEvery == 2

\* retention age of idempotency keys passed by the cleanup routine, in ticks
KeyMaxAge == 1

Min(a, b) == IF a < b THEN a ELSE b

(***************************************************************************)
(* models.go: records and the strings the validator classifies.            *)
(***************************************************************************)
Statuses == {"pending", "processing", "completed", "failed"}
Terminal == {"completed", "failed"}

\* strings that parse as a UUID (validator tag "uuid")
ValidUUIDs == {"u1", "u2", "a1", "c1"}
\* strings that pass the validator tag "email"
ValidEmails == {"a@x.io", "b@x.io"}
validRoles == {"admin", "manager", "reader"}
validArticleStatuses == {"draft", "published"}
\* strings matched by slugRegex
KebabSlugs == {"s-1", "s-2"}
\* time.Time values: "zero" is the zero time (IsZero), "now" the time.Now() of a
\* validation, "t0" and "t1" two earlier instants
Times == {"zero", "t0", "t1", "now"}

\* comment bodies: word count (strings.Fields), code points, TrimSpace = ""
WordCount(b) == CASE b = "w501" -> 501 [] b = "" -> 0 [] b = "  " -> 0 [] OTHER -> 1
RuneCount(b) == CASE b = "r10001" -> 10001 [] b = "w501" -> 1001 [] b = "" -> 0 [] OTHER -> 2
TrimIsEmpty(b) == b \in {"", "  "}

VErr(row, field, msg) == [row |-> row, field |-> field, msg |-> msg]

(***************************************************************************)
(* storage: existence probes and batched upserts.                          *)
(***************************************************************************)
UserExists(d, id) == \E u \in d.users : u.id = id
ArticleExists(d, id) == \E a \in d.articles : a.id = id
EmailExists(d, email) == \E u \in d.users : u.email = email
SlugExists(d, slug) == \E a \in d.articles : a.slug = slug

\* a users table without the unique index on email: every row is added
UpsertUserAppend(users, u) == users \cup {u}

\* one INSERT ... ON CONFLICT (email) DO UPDATE SET name, role, active,
\* updated_at; the id and the created_at of the stored row stay
UpsertUser(users, u) ==
    IF \E o \in users : o.email = u.email
    THEN {IF o.email = u.email
          THEN [o EXCEPT !.name = u.name, !.role = u.role, !.active = u.active,
                         !.updatedAt = u.updatedAt]
          ELSE o : o \in users}
    ELSE users \cup {u}
\* the statement fails on a primary-key clash with a row of another email
UserInsertFails(users, u) ==
    /\ ~ \E o \in users : o.email = u.email
    /\ \E o \in users : o.id = u.id

UpsertArticle(d, a) ==
    IF \E o \in d.articles : o.slug = a.slug
    THEN {IF o.slug = a.slug THEN [a EXCEPT !.id = o.id] ELSE o : o \in d.articles}
    ELSE d.articles \cup {a}
ArticleInsertFails(d, a) ==
    \/ ~ UserExists(d, a.authorID)
    \/ /\ ~ \E o \in d.articles : o.slug = a.slug
       /\ \E o \in d.articles : o.id = a.id

UpsertComment(d, c) ==
    {o \in d.comments : o.id # c.id} \cup {c}
CommentInsertFails(d, c) ==
    \/ ~ UserExists(d, c.userID)
    \/ ~ ArticleExists(d, c.articleID)

UpsertOne(kind, d, r) ==
    CASE kind = "users" -> [d EXCEPT !.users = UpsertUser(d.users, r)]
      [] kind = "articles" -> [d EXCEPT !.articles = UpsertArticle(d, r)]
      [] OTHER -> [d EXCEPT !.comments = UpsertComment(d, r)]
InsertFails(kind, d, r) ==
    CASE kind = "users" -> UserInsertFails(d.users, r)
      [] kind = "articles" -> ArticleInsertFails(d, r)
      [] OTHER -> CommentInsertFails(d, r)

\* BatchInsertUsers / Articles / Comments: the rows in order, in one transaction
RECURSIVE BatchInsert(_, _, _)
BatchInsert(kind, d, rows) ==
    IF rows = <<>> THEN [ok |-> TRUE, db |-> d]
    ELSE IF InsertFails(kind, d, Head(rows)) THEN [ok |-> FALSE, db |-> d]
    ELSE BatchInsert(kind, UpsertOne(kind, d, Head(rows)), Tail(rows))

(***************************************************************************)
(* validation: validate.Struct (tags of models.go, fields in declaration   *)
(* order, one error per field) followed by the custom rules.               *)
(***************************************************************************)
Required(row, field, v) ==
    IF v = "" THEN <<VErr(row, field, "required")>> ELSE <<>>
OptUUID(row, field, v) ==
    IF v # "" /\ v \notin ValidUUIDs THEN <<VErr(row, field, "uuid")>> ELSE <<>>
ReqUUID(row, field, v) ==
    IF v = "" THEN <<VErr(row, field, "required")>>
    ELSE IF v \notin ValidUUIDs THEN <<VErr(row, field, "uuid")>> ELSE <<>>
ReqOneOf(row, field, v, S) ==
    IF v = "" THEN <<VErr(row, field, "required")>>
    ELSE IF v \notin S THEN <<VErr(row, field, "oneof")>> ELSE <<>>

\* a validator that applies the uniqueness rule to rows without an id too
ValidateUserAnyId(d, user, rowNum) ==
    OptUUID(rowNum, "id", user.id)
    \o (IF user.email = "" THEN <<VErr(rowNum, "email", "required")>>
        ELSE IF user.email \notin ValidEmails THEN <<VErr(rowNum, "email", "email")>> ELSE <<>>)
    \o Required(rowNum, "name", user.name)
    \o ReqOneOf(rowNum, "role", user.role, validRoles)
    \o (IF user.email # "" /\ EmailExists(d, user.email)
        THEN <<VErr(rowNum, "email", "email already exists")>> ELSE <<>>)
    \o (IF user.role # "" /\ user.role \notin validRoles
        THEN <<VErr(rowNum, "role", "role must be one of")>> ELSE <<>>)

ValidateUser(d, user, rowNum) ==
    OptUUID(rowNum, "id", user.id)
    \o (IF user.email = "" THEN <<VErr(rowNum, "email", "required")>>
        ELSE IF user.email \notin ValidEmails THEN <<VErr(rowNum, "email", "email")>> ELSE <<>>)
    \o Required(rowNum, "name", user.name)
    \o ReqOneOf(rowNum, "role", user.role, validRoles)
    \o (IF user.email # "" /\ user.id # "" /\ EmailExists(d, user.email)
        THEN <<VErr(rowNum, "email", "email already exists")>> ELSE <<>>)
    \o (IF user.role # "" /\ user.role \notin validRoles
        THEN <<VErr(rowNum, "role", "role must be one of")>> ELSE <<>>)

\* a validator without the author foreign-key rule
ValidateArticleNoAuthor(d, article, rowNum) ==
    OptUUID(rowNum, "id", article.id)
    \o Required(rowNum, "slug", article.slug)
    \o Required(rowNum, "title", article.title)
    \o Required(rowNum, "body", article.body)
    \o ReqUUID(rowNum, "authorid", article.authorID)
    \o ReqOneOf(rowNum, "status", article.status, validArticleStatuses)
    \o (IF article.slug # "" /\ article.slug \notin KebabSlugs
        THEN <<VErr(rowNum, "slug", "kebab-case")>> ELSE <<>>)
    \o (IF article.slug # "" /\ article.id # "" /\ SlugExists(d, article.slug)
        THEN <<VErr(rowNum, "slug", "slug already exists")>> ELSE <<>>)
    \o (IF article.status = "draft" /\ article.pub
        THEN <<VErr(rowNum, "published_at", "draft with published_at")>> ELSE <<>>)

ValidateArticle(d, article, rowNum) ==
    OptUUID(rowNum, "id", article.id)
    \o Required(rowNum, "slug", article.slug)
    \o Required(rowNum, "title", article.title)
    \o Required(rowNum, "body", article.body)
    \o ReqUUID(rowNum, "authorid", article.authorID)
    \o ReqOneOf(rowNum, "status", article.status, validArticleStatuses)
    \o (IF article.slug # "" /\ article.slug \notin KebabSlugs
        THEN <<VErr(rowNum, "slug", "kebab-case")>> ELSE <<>>)
    \o (IF article.slug # "" /\ article.id # "" /\ SlugExists(d, article.slug)
        THEN <<VErr(rowNum, "slug", "slug already exists")>> ELSE <<>>)
    \o (IF article.authorID # "" /\ ~ UserExists(d, article.authorID)
        THEN <<VErr(rowNum, "author_id", "does not exist")>> ELSE <<>>)
    \o (IF article.status = "draft" /\ article.pub
        THEN <<VErr(rowNum, "published_at", "draft with published_at")>> ELSE <<>>)

ValidateComment(d, comment, rowNum) ==
    OptUUID(rowNum, "id", comment.id)
    \o ReqUUID(rowNum, "articleid", comment.articleID)
    \o ReqUUID(rowNum, "userid", comment.userID)
    \o Required(rowNum, "body", comment.body)
    \o (IF comment.articleID # "" /\ ~ ArticleExists(d, comment.articleID)
        THEN <<VErr(rowNum, "article_id", "does not exist")>> ELSE <<>>)
    \o (IF comment.userID # "" /\ ~ UserExists(d, comment.userID)
        THEN <<VErr(rowNum, "user_id", "does not exist")>> ELSE <<>>)
    \o (IF comment.body # "" /\ WordCount(comment.body) > 500
        THEN <<VErr(rowNum, "body", "over 500 words")>> ELSE <<>>)
    \o (IF comment.body # "" /\ TrimIsEmpty(comment.body)
        THEN <<VErr(rowNum, "body", "empty")>> ELSE <<>>)
    \o (IF comment.body # "" /\ RuneCount(comment.body) > 10000
        THEN <<VErr(rowNum, "body", "too long")>> ELSE <<>>)

ValidateRecord(kind, d, r, rowNum) ==
    CASE kind = "users" -> ValidateUser(d, r, rowNum)
      [] kind = "articles" -> ValidateArticle(d, r, rowNum)
      [] OTHER -> ValidateComment(d, r, rowNum)

\* uuid.New(): a fresh id, distinct for every record of every job
NewUUID(j, rowNum) == "g" \o ToString(j) \o "-" \o ToString(rowNum)

\* a validator that leaves published_at as the payload gave it
DefaultedUnpublished(kind, r, j, rowNum) ==
    LET withId == IF r.id = "" THEN [r EXCEPT !.id = NewUUID(j, rowNum)] ELSE r
    IN IF kind = "users"
       THEN [withId EXCEPT !.createdAt = IF @ = "zero" THEN "now" ELSE @, !.updatedAt = "now"]
       ELSE withId

\* a GenerateID that assigns a new id to every record
GenerateIDAlways(r, uuid) == [r EXCEPT !.id = uuid]

\* User / Article / Comment.GenerateID: uuid is the value of uuid.New().String()
GenerateID(r, uuid) == IF r.id = "" THEN [r EXCEPT !.id = uuid] ELSE r

\* Comment.SetTimestamps: created_at when it is zero, nothing else
SetCommentTimestamps(c) ==
    [c EXCEPT !.createdAt = IF @ = "zero" THEN "now" ELSE @]

\* User.SetTimestamps and Article.SetTimestamps (the same body): created_at
\* when it is zero, updated_at always
SetUserTimestamps(u) ==
    [u EXCEPT !.createdAt = IF @ = "zero" THEN "now" ELSE @, !.updatedAt = "now"]

\* GenerateID and SetTimestamps, and the published_at that ValidateArticle
\* fills in
Defaulted(kind, r, j, rowNum) ==
    LET withId == GenerateID(r, NewUUID(j, rowNum))
    IN CASE kind = "users" -> SetUserTimestamps(withId)
         [] kind = "articles" /\ r.status = "published" -> [withId EXCEPT !.pub = TRUE]
         [] OTHER -> withId

\* a batch validator that stops at the first record it rejects
RECURSIVE ValidateBatchStop(_, _, _, _, _, _)
ValidateBatchStop(kind, d, j, batch, startRow, i) ==
    IF i > Len(batch) THEN [valid |-> <<>>, errs |-> <<>>]
    ELSE LET rowNum == startRow + (i - 1) + 1
             errors == ValidateRecord(kind, d, batch[i], rowNum)
             rest == ValidateBatchStop(kind, d, j, batch, startRow, i + 1)
         IN IF errors = <<>>
            THEN [valid |-> <<Defaulted(kind, batch[i], j, rowNum)>> \o rest.valid, errs |-> rest.errs]
            ELSE [valid |-> <<>>, errs |-> errors]

\* BatchValidator.ValidateUsers / ValidateArticles / ValidateComments:
\* the accepted records and the errors appended to the validator
RECURSIVE ValidateBatch(_, _, _, _, _, _)
ValidateBatch(kind, d, j, batch, startRow, i) ==
    IF i > Len(batch) THEN [valid |-> <<>>, errs |-> <<>>]
    ELSE LET rowNum == startRow + (i - 1) + 1
             errors == ValidateRecord(kind, d, batch[i], rowNum)
             rest == ValidateBatch(kind, d, j, batch, startRow, i + 1)
         IN IF errors = <<>>
            THEN [valid |-> <<Defaulted(kind, batch[i], j, rowNum)>> \o rest.valid, errs |-> rest.errs]
            ELSE [valid |-> rest.valid, errs |-> errors \o rest.errs]

(***************************************************************************)
(* jobs: the registry.                                                     *)
(***************************************************************************)
Put(f, k, v) == [x \in DOMAIN f \cup {k} |-> IF x = k THEN v ELSE f[x]]
Drop(f, S) == [x \in DOMAIN f \ S |-> f[x]]

maxErrors == 2 * ErrHalf

\* an error merge whose overflow branch appends without cutting the list back
\* to its first half
MergeErrorsUncut(old, new) ==
    IF Len(old) + Len(new) > maxErrors
    THEN LET filled == IF Len(old) < ErrHalf
                       THEN old \o SubSeq(new, 1, Min(ErrHalf - Len(old), Len(new)))
                       ELSE old
         IN IF Len(new) > ErrHalf
            THEN filled \o SubSeq(new, Len(new) - ErrHalf + 1, Len(new))
            ELSE filled \o new
    ELSE old \o new

\* the error-list branch of UpdateImportJob: first ErrHalf / last ErrHalf
MergeErrors(old, new) ==
    IF Len(old) + Len(new) > maxErrors
    THEN LET filled == IF Len(old) < ErrHalf
                       THEN old \o SubSeq(new, 1, Min(ErrHalf - Len(old), Len(new)))
                       ELSE old
         IN IF Len(new) > ErrHalf
            THEN SubSeq(filled, 1, ErrHalf) \o SubSeq(new, Len(new) - ErrHalf + 1, Len(new))
            ELSE SubSeq(filled, 1, ErrHalf) \o new
    ELSE old \o new

\* a registry that stamps the completion time on success only
CompletedAtOnSuccess(job, status) ==
    IF status = "completed" THEN <<now>> ELSE job.completedAt

\* CompletedAt is a pointer: <<>> is nil, <<t>> is set
CompletedAtAfter(job, status) ==
    IF status \in Terminal THEN <<now>> ELSE job.completedAt

NewImportJob(resourceType) ==
    [status |-> "pending", resourceType |-> resourceType, total |-> 0, valid |-> 0,
     errorRecords |-> 0, errors |-> <<>>, createdAt |-> now, completedAt |-> <<>>,
     progress |-> 0]

\* Filters is the mapping of the request body, here the empty mapping of
\* "filters": {} (the queries of the store take no filter)
NewExportJob(resourceType, format) ==
    [status |-> "pending", resourceType |-> resourceType, format |-> format, total |-> 0,
     downloadURL |-> "", createdAt |-> now, completedAt |-> <<>>, progress |-> 0,
     filters |-> <<>>]

\* an update that stores the job under an id the registry does not hold
UpdateImportJobUpsert(id, status, progress, totalRecords, validRecords, errorRecords, errors) ==
    IF id \in DOMAIN importJobs
    THEN [importJobs EXCEPT ![id] =
            [@ EXCEPT !.status = status, !.progress = progress, !.total = totalRecords,
                      !.valid = validRecords, !.errorRecords = errorRecords,
                      !.errors = MergeErrors(@, errors),
                      !.completedAt = CompletedAtAfter(importJobs[id], status)]]
    ELSE Put(importJobs, id, [NewImportJob("users") EXCEPT !.status = status])

\* JobManager.UpdateImportJob: the registry after the call
UpdateImportJob(id, status, progress, totalRecords, validRecords, errorRecords, errors) ==
    IF id \in DOMAIN importJobs
    THEN [importJobs EXCEPT ![id] =
            [@ EXCEPT !.status = status, !.progress = progress, !.total = totalRecords,
                      !.valid = validRecords, !.errorRecords = errorRecords,
                      !.errors = MergeErrors(@, errors),
                      !.completedAt = CompletedAtAfter(importJobs[id], status)]]
    ELSE importJobs

\* JobManager.UpdateExportJob: the registry after the call
UpdateExportJob(id, status, progress, totalRecords, downloadURL) ==
    IF id \in DOMAIN exportJobs
    THEN [exportJobs EXCEPT ![id] =
            [@ EXCEPT !.status = status, !.progress = progress, !.total = totalRecords,
                      !.downloadURL = downloadURL,
                      !.completedAt = CompletedAtAfter(exportJobs[id], status)]]
    ELSE exportJobs

\* a cleanup that spares the jobs that have not ended
ExpiredEnded(jobs, maxAge) ==
    {id \in DOMAIN jobs : jobs[id].createdAt < now - maxAge /\ jobs[id].status \in Terminal}

\* a count that marks a status as present instead of incrementing its entry
RECURSIVE TallyPresent(_, _)
TallyPresent(jobs, ids) ==
    IF ids = {} THEN <<>>
    ELSE LET id == CHOOSE x \in ids : TRUE
             rest == TallyPresent(jobs, ids \ {id})
         IN Put(rest, jobs[id].status, 1)

\* "for _, job := range jobs { stats[job.Status]++ }" over the jobs of ids: a
\* map from the statuses that occur to their counts
RECURSIVE Tally(_, _)
Tally(jobs, ids) ==
    IF ids = {} THEN <<>>
    ELSE LET id == CHOOSE x \in ids : TRUE
             rest == Tally(jobs, ids \ {id})
             s == jobs[id].status
         IN Put(rest, s, (IF s \in DOMAIN rest THEN rest[s] ELSE 0) + 1)

\* JobManager.GetJobStats, computed under the read lock
GetJobStats ==
    [import_jobs |-> Tally(importJobs, DOMAIN importJobs),
     export_jobs |-> Tally(exportJobs, DOMAIN exportJobs),
     total_import_jobs |-> Cardinality(DOMAIN importJobs),
     total_export_jobs |-> Cardinality(DOMAIN exportJobs)]

\* the ids CleanupOldJobs deletes: CreatedAt.Before(now - maxAge)
Expired(jobs, maxAge) == {id \in DOMAIN jobs : jobs[id].createdAt < now - maxAge}

\* Handler.isValidResourceFormat
isValidResourceFormat(resourceType, format) ==
    CASE resourceType = "users" -> format \in {"csv", "ndjson", "json"}
      [] resourceType = "articles" -> format \in {"ndjson", "json"}
      [] resourceType = "comments" -> format \in {"ndjson", "json"}
      [] OTHER -> FALSE

(***************************************************************************)
(* Inputs: the records an uploaded file can hold, and what the decoder     *)
(* makes of a line.                                                        *)
(***************************************************************************)
UserRecs ==
    { [id |-> "",   email |-> "a@x.io", name |-> "Ann", role |-> "admin", active |-> FALSE,
       createdAt |-> "zero", updatedAt |-> "zero"],
      [id |-> "",   email |-> "bad@",   name |-> "Bob", role |-> "admin", active |-> TRUE,
       createdAt |-> "zero", updatedAt |-> "zero"],
      [id |-> "",   email |-> "b@x.io", name |-> "",    role |-> "root", active |-> TRUE,
       createdAt |-> "zero", updatedAt |-> "zero"],
      [id |-> "u1", email |-> "a@x.io", name |-> "Ann", role |-> "reader", active |-> TRUE,
       createdAt |-> "t1", updatedAt |-> "t1"],
      [id |-> "u1", email |-> "b@x.io", name |-> "Bea", role |-> "manager", active |-> TRUE,
       createdAt |-> "zero", updatedAt |-> "zero"] }
ArticleRecs ==
    { [id |-> "", slug |-> "s-1", title |-> "t", body |-> "b", authorID |-> "u1",
       status |-> "published", pub |-> FALSE],
      [id |-> "", slug |-> "S 2", title |-> "", body |-> "b", authorID |-> "u2",
       status |-> "draft", pub |-> TRUE],
      [id |-> "", slug |-> "s-2", title |-> "t", body |-> "b", authorID |-> "u1",
       status |-> "draft", pub |-> TRUE],
      [id |-> "a1", slug |-> "s-1", title |-> "t2", body |-> "b", authorID |-> "u1",
       status |-> "draft", pub |-> FALSE] }
CommentRecs ==
    { [id |-> "c1", articleID |-> "a1", userID |-> "u1", body |-> "hi"],
      [id |-> "",   articleID |-> "a1", userID |-> "u2", body |-> "w501"] }
Recs(kind) ==
    CASE kind = "users" -> UserRecs
      [] kind = "articles" -> ArticleRecs
      [] OTHER -> CommentRecs

\* csv.Reader.Read / parseUserFromCSV, json.Decoder.Decode: what one line yields.
\* "csverr": a csv.ParseError; "parseerr": a malformed bool or timestamp cell;
\* "typeerr": a JSON value of the wrong type (the decoder goes on to the next
\* value); "syntaxerr": malformed JSON (the decoder keeps the error: every later
\* Decode returns it and More stays true)
Outcomes(kind) ==
    IF kind = "users" THEN {"row", "csverr", "parseerr"} ELSE {"row", "typeerr", "syntaxerr"}

\* the (resource_type, format) pairs a request can carry
Combos ==
    { <<"users", "csv">>, <<"articles", "ndjson">>, <<"comments", "ndjson">>,
      <<"users", "ndjson">>, <<"users", "xml">> }
ExportCombos == { <<"users", "csv">>, <<"articles", "ndjson">> }
\* the pairs an export request can carry in the export scenario
AllExportCombos ==
    { <<"users", "csv">>, <<"users", "ndjson">>, <<"users", "json">>,
      <<"articles", "ndjson">>, <<"articles", "json">>, <<"articles", "csv">>,
      <<"comments", "ndjson">>, <<"comments", "json">> }

SeedDb ==
    [users |-> {[id |-> "u1", email |-> "a@x.io", name |-> "Ann", role |-> "admin",
                 active |-> TRUE, createdAt |-> "t0", updatedAt |-> "t0"]},
     articles |-> {[id |-> "a1", slug |-> "s-1", title |-> "t", body |-> "b",
                    authorID |-> "u1", status |-> "draft", pub |-> FALSE]},
     comments |-> {}]
EmptyDb == [users |-> {}, articles |-> {}, comments |-> {}]
\* a store with two rows in the users table
FullDb ==
    [users |-> SeedDb.users \cup
               {[id |-> "u2", email |-> "b@x.io", name |-> "Bea", role |-> "reader",
                 active |-> FALSE, createdAt |-> "t1", updatedAt |-> "t1"]},
     articles |-> SeedDb.articles,
     comments |-> {[id |-> "c1", articleID |-> "a1", userID |-> "u1", body |-> "hi"]}]

\* a store with three rows in the users table, more than FlushEvery
LongDb ==
    [users |-> FullDb.users \cup
               {[id |-> "u3", email |-> "c@x.io", name |-> "Cy", role |-> "manager",
                 active |-> TRUE, createdAt |-> "t1", updatedAt |-> "now"]},
     articles |-> {}, comments |-> {}]

Table(d, kind) ==
    CASE kind = "users" -> d.users
      [] kind = "articles" -> d.articles
      [] OTHER -> d.comments

\* no record under test; given is history: the record before the calls
NoRec == [kind |-> "none", r |-> <<>>, given |-> <<>>, calls |-> <<>>]

\* no call of GetImportJob / GetExportJob has returned yet; atRest is history:
\* the job's goroutine had ended when the snapshot was taken
NoSnap ==
    [kind |-> "none", id |-> 0, found |-> FALSE, job |-> <<>>, writes |-> 0, atRest |-> FALSE]

(***************************************************************************)
(* Handler.CreateImportJob, one step per access to shared state.           *)
(***************************************************************************)
ReqIds == {1, 2}
\* the job ids uuid.New can hand out: one job, or two in the idempotency scenario
JobIds == {1}
JobIdsIdem == {1, 2}

NewReq(key, pc) ==
    [pc |-> pc, key |-> key, kind |-> "", format |-> "", jobID |-> 0, code |-> 0,
     respStatus |-> "",
     \* history, not program state: CheckIdempotency found the key; the request
     \* was issued after another one with the same key had been answered 202
     hit |-> FALSE, seq |-> FALSE]

\* the requests with r's key that have been answered with a new job
AnsweredBefore(r) ==
    {q \in ReqIds \ {r} : req[q].key = req[r].key /\ req[q].pc = "done" /\ req[q].code = 202}

\* a handler that never finds the key in the ledger
ReqCheckMiss(r) ==
    /\ req[r].pc = "new"
    /\ req' = [req EXCEPT ![r] = [@ EXCEPT !.pc = "body", !.seq = AnsweredBefore(r) # {}]]
    /\ UNCHANGED <<now, sweeper, importJobs, exportJobs, nextId, keys, keyTime, imp, exp, db, files, stream, snap, mrec>>

\* idempotencyMgr.CheckIdempotency(key)
ReqCheck(r) ==
    /\ req[r].pc = "new"
    /\ req' = [req EXCEPT ![r] =
                 IF req[r].key # "" /\ req[r].key \in DOMAIN keys
                 THEN [@ EXCEPT !.pc = "lookup", !.jobID = keys[req[r].key], !.hit = TRUE,
                                !.seq = AnsweredBefore(r) # {}]
                 ELSE [@ EXCEPT !.pc = "body", !.seq = AnsweredBefore(r) # {}]]
    /\ UNCHANGED <<now, sweeper, importJobs, exportJobs, nextId, keys, keyTime, imp, exp, db, files, stream, snap, mrec>>

\* a handler whose ledger-hit branch lacks its return: it answers 200 and goes
\* on to read the body and create a job
ReqLookupNoReturn(r) ==
    /\ req[r].pc = "lookup"
    /\ req' = [req EXCEPT ![r] =
                 IF req[r].jobID \in DOMAIN importJobs
                 THEN [@ EXCEPT !.pc = "body", !.code = 200,
                                !.respStatus = importJobs[req[r].jobID].status]
                 ELSE [@ EXCEPT !.pc = "body", !.jobID = 0]]
    /\ UNCHANGED <<now, sweeper, importJobs, exportJobs, nextId, keys, keyTime, imp, exp, db, files, stream, snap, mrec>>

\* jobManager.GetImportJob(jobID) on a ledger hit: 200 with the snapshot's status
ReqLookup(r) ==
    /\ req[r].pc = "lookup"
    /\ req' = [req EXCEPT ![r] =
                 IF req[r].jobID \in DOMAIN importJobs
                 THEN [@ EXCEPT !.pc = "done", !.code = 200,
                                !.respStatus = importJobs[req[r].jobID].status]
                 ELSE [@ EXCEPT !.pc = "body", !.jobID = 0]]
    /\ UNCHANGED <<now, sweeper, importJobs, exportJobs, nextId, keys, keyTime, imp, exp, db, files, stream, snap, mrec>>

\* the body is read and saved, then isValidResourceFormat: 400 or go on
ReqBody(r, combos) ==
    /\ req[r].pc = "body"
    /\ \E c \in combos :
         req' = [req EXCEPT ![r] =
                   IF isValidResourceFormat(c[1], c[2])
                   THEN [@ EXCEPT !.pc = "create", !.kind = c[1], !.format = c[2]]
                   ELSE [@ EXCEPT !.pc = "done", !.code = 400]]
    /\ UNCHANGED <<now, sweeper, importJobs, exportJobs, nextId, keys, keyTime, imp, exp, db, files, stream, snap, mrec>>

\* jobManager.CreateImportJob(resourceType, fileName)
ReqCreate(r, ids) ==
    /\ req[r].pc = "create"
    /\ nextId + 1 \in ids
    /\ nextId' = nextId + 1
    /\ importJobs' = Put(importJobs, nextId + 1, NewImportJob(req[r].kind))
    /\ req' = [req EXCEPT ![r] = [@ EXCEPT !.jobID = nextId + 1,
                                          !.pc = IF req[r].key # "" THEN "setkey" ELSE "spawn"]]
    /\ UNCHANGED <<now, sweeper, exportJobs, keys, keyTime, imp, exp, db, files, stream, snap, mrec>>

\* a ledger that keeps the job id it already holds for the key
ReqSetKeyKeepFirst(r) ==
    /\ req[r].pc = "setkey"
    /\ keys' = IF req[r].key \in DOMAIN keys THEN keys ELSE Put(keys, req[r].key, req[r].jobID)
    /\ keyTime' = Put(keyTime, req[r].key, now)
    /\ req' = [req EXCEPT ![r].pc = "spawn"]
    /\ UNCHANGED <<now, sweeper, importJobs, exportJobs, nextId, imp, exp, db, files, stream, snap, mrec>>

\* idempotencyMgr.SetIdempotency(key, job.ID)
ReqSetKey(r) ==
    /\ req[r].pc = "setkey"
    /\ keys' = Put(keys, req[r].key, req[r].jobID)
    /\ keyTime' = Put(keyTime, req[r].key, now)
    /\ req' = [req EXCEPT ![r].pc = "spawn"]
    /\ UNCHANGED <<now, sweeper, importJobs, exportJobs, nextId, imp, exp, db, files, stream, snap, mrec>>

NewImp(format) ==
    [pc |-> "start", kind |-> "", format |-> format, stuck |-> FALSE,
     eof |-> FALSE, totalProcessed |-> 0, totalValid |-> 0, rowNumber |-> 0,
     batch |-> <<>>, valid |-> <<>>, verrs |-> <<>>, err |-> "",
     \* ctx.Done() is closed
     cancelled |-> FALSE,
     \* colIndex of processUsersCSV: header column -> position
     colIndex |-> <<>>,
     \* history, not program state: the rows the decoder rejected; the physical
     \* line of each record of batch and of valid; the batches committed so far,
     \* each as the lines of its rows; the CSV records read; the store when the
     \* file was opened
     decRejected |-> 0, lines |-> <<>>, vlines |-> <<>>, commits |-> <<>>,
     read |-> <<>>, before |-> EmptyDb]

\* go h.jobProcessor.ProcessImportJob(ctx, job.ID, filePath, format)
ReqSpawn(r) ==
    /\ req[r].pc = "spawn"
    /\ imp' = Put(imp, req[r].jobID, NewImp(req[r].format))
    /\ req' = [req EXCEPT ![r].pc = "respond"]
    /\ UNCHANGED <<now, sweeper, importJobs, exportJobs, nextId, keys, keyTime, exp, db, files, stream, snap, mrec>>

\* c.JSON(202, job.Status): job is the registry's own object, read without the
\* lock while the pipeline may write it
ReqRespond(r) ==
    /\ req[r].pc = "respond"
    /\ \E st \in (IF req[r].jobID \in DOMAIN importJobs
                  THEN {"pending", importJobs[req[r].jobID].status} ELSE Statuses) :
         req' = [req EXCEPT ![r] = [@ EXCEPT !.pc = "done", !.code = 202, !.respStatus = st]]
    /\ UNCHANGED <<now, sweeper, importJobs, exportJobs, nextId, keys, keyTime, imp, exp, db, files, stream, snap, mrec>>

(***************************************************************************)
(* JobProcessor.ProcessImportJob and Processor.ProcessImport /             *)
(* processUsersCSV / processArticlesNDJSON / processCommentsNDJSON.         *)
(***************************************************************************)
ImpFrame == UNCHANGED <<now, sweeper, exportJobs, nextId, keys, keyTime, req, exp, files, stream, snap, mrec>>

\* job, exists := GetImportJob(jobID); if !exists return
ImportStart(j) ==
    /\ j \in DOMAIN imp /\ imp[j].pc = "start"
    /\ imp' = [imp EXCEPT ![j] =
                 IF j \in DOMAIN importJobs
                 THEN [@ EXCEPT !.pc = "mark", !.kind = importJobs[j].resourceType]
                 ELSE [@ EXCEPT !.pc = "done"]]
    /\ UNCHANGED <<importJobs, db>> /\ ImpFrame

\* UpdateImportJob(jobID, "processing", 0, 0, 0, 0, nil)
ImportMark(j) ==
    /\ j \in DOMAIN imp /\ imp[j].pc = "mark"
    /\ importJobs' = UpdateImportJob(j, "processing", 0, 0, 0, 0, <<>>)
    /\ imp' = [imp EXCEPT ![j].pc = "open"]
    /\ UNCHANGED db /\ ImpFrame

\* ProcessImport's switch, and the header read of processUsersCSV
ImportOpen(j) ==
    /\ j \in DOMAIN imp /\ imp[j].pc = "open"
    /\ \E emptyFile \in BOOLEAN :
         imp' = [imp EXCEPT ![j] =
                   CASE imp[j].kind = "users" /\ imp[j].format = "csv" ->
                          IF emptyFile THEN [@ EXCEPT !.pc = "fail", !.err = "header"]
                          ELSE [@ EXCEPT !.pc = "loop", !.rowNumber = 1]
                     [] imp[j].kind \in {"articles", "comments"} /\ imp[j].format = "ndjson" ->
                          [@ EXCEPT !.pc = "loop"]
                     [] OTHER -> [@ EXCEPT !.pc = "fail", !.err = "unsupported"]]
    /\ UNCHANGED <<importJobs, db>> /\ ImpFrame

\* an estimate that lacks the division by the expected size
ImportProgressUndivided(totalProcessed) == Min(100, totalProcessed * 50)

\* the progress estimate of the batch loop
ImportProgressOf(totalProcessed) == (totalProcessed * 50) \div (totalProcessed + BatchSize)

\* a loop that processes the batch one row late
AfterRowLate(batch) == IF Len(batch) > BatchSize THEN "validate" ELSE "loop"

\* where the loop goes after a row: the batch is processed when full
AfterRow(batch) == IF Len(batch) >= BatchSize THEN "validate" ELSE "loop"

\* the lines read so far (the CSV header is line 1 and is not counted)
LinesRead(p) == IF p.kind = "users" THEN p.rowNumber - 1 ELSE p.rowNumber

\* "case <-ctx.Done(): return ctx.Err()" at the top of an iteration: the CSV
\* loop selects before it reads, the NDJSON loops only after decoder.More()
Interrupted(p, o) == p.cancelled /\ (p.kind = "users" \/ o # "eof")

\* one iteration of the read loop; limit bounds the lines of the file
ImportRead(j, limit) ==
    /\ j \in DOMAIN imp /\ imp[j].pc = "loop"
    /\ LET p == imp[j] IN
       \E o \in Outcomes(p.kind) \cup {"eof"} : \E rec \in Recs(p.kind) :
         /\ o # "row" => rec = CHOOSE x \in Recs(p.kind) : TRUE
         /\ o = "eof" => ~ p.stuck
         /\ o # "eof" => LinesRead(p) < limit
         /\ p.stuck => o = "syntaxerr"
         /\ imp' = [imp EXCEPT ![j] =
              CASE Interrupted(p, o) ->
                     [@ EXCEPT !.pc = "fail", !.err = "cancelled"]
                [] o = "eof" ->
                     [@ EXCEPT !.eof = TRUE, !.pc = IF p.batch # <<>> THEN "validate" ELSE "final"]
                [] o = "csverr" ->
                     [@ EXCEPT !.rowNumber = @ + 1, !.decRejected = @ + 1]
                [] o = "row" ->
                     [@ EXCEPT !.rowNumber = @ + 1, !.totalProcessed = @ + 1,
                               !.batch = Append(@, rec), !.pc = AfterRow(Append(p.batch, rec)),
                               !.lines = Append(@, p.rowNumber + 1)]
                [] OTHER ->
                     [@ EXCEPT !.rowNumber = @ + 1, !.totalProcessed = @ + 1,
                               !.decRejected = @ + 1, !.stuck = (o = "syntaxerr")]]
         /\ importJobs' =
              IF o \in {"eof", "row"} \/ Interrupted(p, o) THEN importJobs
              ELSE UpdateImportJob(j, "processing", 0, p.totalProcessed, p.totalValid, 1,
                     <<VErr(p.rowNumber + 1,
                            CASE o = "csverr" -> "csv" [] o = "parseerr" -> "parsing" [] OTHER -> "json",
                            "decode")>>)
    /\ UNCHANGED db /\ ImpFrame

\* the positions of the batch whose records the validator accepts
Passing(kind, d, batch) ==
    {i \in 1..Len(batch) : ValidateRecord(kind, d, batch[i], i) = <<>>}

\* the entries of seq at the positions of S, in order, from position i on
RECURSIVE Pick(_, _, _)
Pick(S, seq, i) ==
    IF i > Len(seq) THEN <<>>
    ELSE (IF i \in S THEN <<seq[i]>> ELSE <<>>) \o Pick(S, seq, i + 1)

\* validator.ValidateUsers(batch, totalProcessed-len(batch)) and its siblings.
\* The batch is not read again before "batch = make(...)", so it is emptied here.
ImportValidate(j) ==
    /\ j \in DOMAIN imp /\ imp[j].pc = "validate"
    /\ LET p == imp[j]
           res == ValidateBatch(p.kind, db, j, p.batch, p.totalProcessed - Len(p.batch), 1)
       IN imp' = [imp EXCEPT ![j] =
                    [@ EXCEPT !.valid = res.valid, !.verrs = @ \o res.errs, !.batch = <<>>,
                              !.lines = <<>>,
                              !.vlines = Pick(Passing(p.kind, db, p.batch), p.lines, 1),
                              !.pc = IF res.valid # <<>> THEN "insert"
                                     ELSE IF p.eof THEN "final" ELSE "progress"]]
    /\ UNCHANGED <<importJobs, db>> /\ ImpFrame

\* a store without the transaction: the rows written before the failing
\* statement stay
ImportInsertPartial(j) ==
    /\ j \in DOMAIN imp /\ imp[j].pc = "insert"
    /\ LET p == imp[j]
           res == BatchInsert(p.kind, db, p.valid)
       IN \E dbError \in BOOLEAN :
            IF dbError \/ ~ res.ok
            THEN /\ imp' = [imp EXCEPT ![j] = [@ EXCEPT !.pc = "fail", !.err = "insert",
                                                      !.valid = <<>>, !.vlines = <<>>]]
                 /\ db' = res.db
            ELSE /\ imp' = [imp EXCEPT ![j] =
                              [@ EXCEPT !.totalValid = @ + Len(p.valid), !.valid = <<>>,
                                        !.vlines = <<>>, !.commits = Append(@, p.vlines),
                                        !.pc = IF p.eof THEN "final" ELSE "progress"]]
                 /\ db' = res.db
    /\ UNCHANGED importJobs /\ ImpFrame

\* a pipeline that notes a failed batch insert and goes on with the next batch
ImportInsertSkip(j) ==
    /\ j \in DOMAIN imp /\ imp[j].pc = "insert"
    /\ LET p == imp[j]
           res == BatchInsert(p.kind, db, p.valid)
       IN \E dbError \in BOOLEAN :
            IF dbError \/ ~ res.ok
            THEN /\ imp' = [imp EXCEPT ![j] =
                              [@ EXCEPT !.err = "insert", !.valid = <<>>, !.vlines = <<>>,
                                        !.pc = IF p.eof THEN "final" ELSE "progress"]]
                 /\ db' = db
            ELSE /\ imp' = [imp EXCEPT ![j] =
                              [@ EXCEPT !.totalValid = @ + Len(p.valid), !.valid = <<>>,
                                        !.vlines = <<>>, !.commits = Append(@, p.vlines),
                                        !.pc = IF p.eof THEN "final" ELSE "progress"]]
                 /\ db' = res.db
    /\ UNCHANGED importJobs /\ ImpFrame

\* storage.BatchInsertUsers(validUsers): commit, or an error that ends the pipeline
ImportInsert(j) ==
    /\ j \in DOMAIN imp /\ imp[j].pc = "insert"
    /\ LET p == imp[j]
           res == BatchInsert(p.kind, db, p.valid)
       IN \E dbError \in BOOLEAN :
            IF dbError \/ ~ res.ok
            THEN /\ imp' = [imp EXCEPT ![j] = [@ EXCEPT !.pc = "fail", !.err = "insert",
                                                      !.valid = <<>>, !.vlines = <<>>]]
                 /\ db' = db
            ELSE /\ imp' = [imp EXCEPT ![j] =
                              [@ EXCEPT !.totalValid = @ + Len(p.valid), !.valid = <<>>,
                                        !.vlines = <<>>, !.commits = Append(@, p.vlines),
                                        !.pc = IF p.eof THEN "final" ELSE "progress"]]
                 /\ db' = res.db
    /\ UNCHANGED importJobs /\ ImpFrame

\* the per-batch UpdateImportJob, then batch = make(...)
ImportProgress(j) ==
    /\ j \in DOMAIN imp /\ imp[j].pc = "progress"
    /\ LET p == imp[j] IN
       importJobs' = UpdateImportJob(j, "processing", ImportProgressOf(p.totalProcessed),
                                     p.totalProcessed, p.totalValid, Len(p.verrs), p.verrs)
    /\ imp' = [imp EXCEPT ![j].pc = "loop"]
    /\ UNCHANGED db /\ ImpFrame

\* the status the pipeline ends with once the input is drained
FinalStatus(allErrors, totalValid) ==
    IF Len(allErrors) > 0 /\ totalValid = 0 THEN "failed" ELSE "completed"

\* a pipeline whose caller takes the final update for an error return
ImportFinalThenFail(j) ==
    /\ j \in DOMAIN imp /\ imp[j].pc = "final"
    /\ LET p == imp[j] IN
       importJobs' = UpdateImportJob(j, FinalStatus(p.verrs, p.totalValid), 100,
                                     p.totalProcessed, p.totalValid, Len(p.verrs), p.verrs)
    /\ imp' = [imp EXCEPT ![j].pc = "fail"]
    /\ UNCHANGED db /\ ImpFrame

\* "Mark job as completed": the last UpdateImportJob of the pipeline
ImportFinal(j) ==
    /\ j \in DOMAIN imp /\ imp[j].pc = "final"
    /\ LET p == imp[j] IN
       importJobs' = UpdateImportJob(j, FinalStatus(p.verrs, p.totalValid), 100,
                                     p.totalProcessed, p.totalValid, Len(p.verrs), p.verrs)
    /\ imp' = [imp EXCEPT ![j].pc = "done"]
    /\ UNCHANGED db /\ ImpFrame

\* a caller that drops the error ProcessImport returned
ImportFailUnreported(j) ==
    /\ j \in DOMAIN imp /\ imp[j].pc = "fail"
    /\ imp' = [imp EXCEPT ![j].pc = "done"]
    /\ UNCHANGED <<importJobs, db>> /\ ImpFrame

\* ProcessImport returned an error: UpdateImportJob(jobID, "failed", 100, 0, 0, 0, general)
ImportFail(j) ==
    /\ j \in DOMAIN imp /\ imp[j].pc = "fail"
    /\ importJobs' = UpdateImportJob(j, "failed", 100, 0, 0, 0, <<VErr(0, "general", imp[j].err)>>)
    /\ imp' = [imp EXCEPT ![j].pc = "done"]
    /\ UNCHANGED db /\ ImpFrame

(***************************************************************************)
(* Handler.CreateExportJob, JobProcessor.ProcessExportJob and              *)
(* Processor.ProcessExport / exportUsers / exportArticles / exportComments.*)
(***************************************************************************)
ExpFrame == UNCHANGED <<now, sweeper, importJobs, nextId, keys, keyTime, req, imp, db, stream, snap, mrec>>

NewExp ==
    [pc |-> "start", kind |-> "", format |-> "", count |-> 0, cursor |-> <<>>,
     processed |-> 0, file |-> "",
     \* the descriptor of os.Create: pos is its offset, counted in lines; linked
     \* tells that the file it refers to is still the one in the directory
     pos |-> 0, linked |-> FALSE,
     \* ctx.Done() is closed
     cancelled |-> FALSE]

\* the rows of a table in the order of the query's ORDER BY
RECURSIVE Rows(_)
Rows(S) ==
    IF S = {} THEN <<>>
    ELSE LET r == CHOOSE x \in S : TRUE IN <<r>> \o Rows(S \ {r})

\* strconv.FormatBool and Time.Format(time.RFC3339)
FormatBool(b) == IF b THEN "true" ELSE "false"
FormatTime(t) ==
    CASE t = "zero" -> "0001-01-01T00:00:00Z"
      [] t = "t0" -> "2024-01-01T00:00:00Z"
      [] t = "t1" -> "2024-02-01T00:00:00Z"
      [] OTHER -> "2024-03-01T00:00:00Z"

CSVHeader == <<"id", "email", "name", "role", "active", "created_at", "updated_at">>

\* the CSV record the export writes for a user
UserCSVRecord(user) ==
    <<user.id, user.email, user.name, user.role, FormatBool(user.active),
      FormatTime(user.createdAt), FormatTime(user.updatedAt)>>

\* json.Marshal(record) followed by a newline
JSONLine(r) == [json |-> r]

\* what the loop of exportUsers / exportArticles / exportComments writes for
\* one row: the users switch has the cases csv, ndjson and json; articles and
\* comments are written as JSON whatever the format
ExportLines(kind, format, r) ==
    IF kind = "users" /\ format = "csv" THEN <<UserCSVRecord(r)>> ELSE <<JSONLine(r)>>

\* fmt.Sprintf("%s_%s_%d.%s", resourceType, format, time.Now().Unix(), format)
FileName(kind, format) == kind \o "_" \o format \o "_" \o ToString(now) \o "." \o format

\* the bytes a file reads as where nothing was written below a later write
Hole == <<>>

\* content with lines written at offset pos: what lies at the offset is
\* overwritten, a gap between the end of the file and the offset reads as holes
WriteAt(content, pos, lines) ==
    LET padded == content \o [i \in 1..(pos - Len(content)) |-> Hole]
    IN SubSeq(padded, 1, pos) \o lines
         \o SubSeq(padded, pos + Len(lines) + 1, Len(padded))

\* a write of job e through its descriptor: lost when its file has been
\* unlinked
WriteFile(e, lines) ==
    IF e.linked /\ e.file \in DOMAIN files
    THEN [files EXCEPT ![e.file] = WriteAt(@, e.pos, lines)]
    ELSE files

\* POST /v1/exports: CreateExportJob and go ProcessExportJob(ctx, job.ID)
CreateExportJob(ids, combos) ==
    /\ nextId + 1 \in ids
    /\ \E c \in combos :
         /\ isValidResourceFormat(c[1], c[2])
         /\ exportJobs' = Put(exportJobs, nextId + 1, NewExportJob(c[1], c[2]))
    /\ nextId' = nextId + 1
    /\ exp' = Put(exp, nextId + 1, NewExp)
    /\ UNCHANGED <<now, sweeper, importJobs, keys, keyTime, req, imp, db, files, stream, snap, mrec>>

\* job, exists := GetExportJob(jobID); if !exists return
ExportStart(j) ==
    /\ j \in DOMAIN exp /\ exp[j].pc = "start"
    /\ exp' = [exp EXCEPT ![j] =
                 IF j \in DOMAIN exportJobs
                 THEN [@ EXCEPT !.pc = "mark", !.kind = exportJobs[j].resourceType,
                                !.format = exportJobs[j].format]
                 ELSE [@ EXCEPT !.pc = "done"]]
    /\ UNCHANGED <<exportJobs, files>> /\ ExpFrame

\* UpdateExportJob(jobID, "processing", 0, 0, "")
ExportMark(j) ==
    /\ j \in DOMAIN exp /\ exp[j].pc = "mark"
    /\ exportJobs' = UpdateExportJob(j, "processing", 0, 0, "")
    /\ exp' = [exp EXCEPT ![j].pc = "count"]
    /\ UNCHANGED files /\ ExpFrame

\* storage.CountUsers(job.Filters) and siblings; on error "failed" and return
ExportCount(j) ==
    /\ j \in DOMAIN exp /\ exp[j].pc = "count"
    /\ \E dbError \in BOOLEAN :
         IF dbError
         THEN /\ exportJobs' = UpdateExportJob(j, "failed", 100, 0, "")
              /\ exp' = [exp EXCEPT ![j].pc = "done"]
         ELSE /\ exportJobs' = exportJobs
              /\ exp' = [exp EXCEPT ![j] = [@ EXCEPT !.pc = "create",
                                                  !.count = Cardinality(Table(db, exp[j].kind))]]
    /\ UNCHANGED files /\ ExpFrame

\* ProcessExport: os.Create(filePath) creates or truncates the file
ExportCreate(j) ==
    /\ j \in DOMAIN exp /\ exp[j].pc = "create"
    /\ LET name == FileName(exp[j].kind, exp[j].format) IN
       \E createError \in BOOLEAN :
         IF createError
         THEN /\ exp' = [exp EXCEPT ![j].pc = "fail"]
              /\ files' = files
         ELSE /\ exp' = [exp EXCEPT ![j] = [@ EXCEPT !.pc = "query", !.file = name,
                                                  !.pos = 0, !.linked = TRUE]]
              /\ files' = Put(files, name, <<>>)
    /\ UNCHANGED exportJobs /\ ExpFrame

\* storage.GetUsers(filters) opens the cursor; exportUsers writes the CSV header
ExportQuery(j) ==
    /\ j \in DOMAIN exp /\ exp[j].pc = "query"
    /\ LET e == exp[j] IN
       \E dbError \in BOOLEAN :
         IF dbError
         THEN /\ exp' = [exp EXCEPT ![j].pc = "remove"]
              /\ files' = files
         ELSE LET header == IF e.kind = "users" /\ e.format = "csv"
                            THEN <<CSVHeader>> ELSE <<>>
              IN /\ exp' = [exp EXCEPT ![j] = [@ EXCEPT !.pc = "rows",
                                                     !.cursor = Rows(Table(db, e.kind)),
                                                     !.pos = @ + Len(header)]]
                 /\ files' = WriteFile(e, header)
    /\ UNCHANGED exportJobs /\ ExpFrame

\* the progress estimate of the export loop
ExportProgressOf(processed) == Min(90, (processed * 90) \div (10 * BatchSize))

\* one rows.Next() of the export loop: the context is checked, the row is
\* scanned, written and counted, and every BatchSize rows are reported; after
\* the last row rows.Err() decides
ExportRow(j) ==
    /\ j \in DOMAIN exp /\ exp[j].pc = "rows"
    /\ LET e == exp[j] IN
       \E scanError \in BOOLEAN :
         IF e.cursor = <<>>
         THEN /\ exp' = [exp EXCEPT ![j].pc = IF scanError THEN "remove" ELSE "final"]
              /\ exportJobs' = exportJobs
              /\ files' = files
         ELSE IF e.cancelled \/ scanError
         THEN /\ exp' = [exp EXCEPT ![j].pc = "remove"]
              /\ exportJobs' = exportJobs
              /\ files' = files
         ELSE /\ exp' = [exp EXCEPT ![j] =
                             [@ EXCEPT !.cursor = Tail(@), !.processed = @ + 1,
                                       !.pos = @ + Len(ExportLines(e.kind, e.format,
                                                                   Head(e.cursor)))]]
              /\ files' = WriteFile(e, ExportLines(e.kind, e.format, Head(e.cursor)))
              /\ exportJobs' =
                   IF (e.processed + 1) % BatchSize = 0
                   THEN UpdateExportJob(j, "processing", ExportProgressOf(e.processed + 1),
                                        e.processed + 1, "")
                   ELSE exportJobs
    /\ ExpFrame

\* an error path that leaves the partial file in the export directory
ExportRemoveKeep(j) ==
    /\ j \in DOMAIN exp /\ exp[j].pc = "remove"
    /\ exp' = [exp EXCEPT ![j].pc = "fail"]
    /\ UNCHANGED <<exportJobs, files>> /\ ExpFrame

\* ProcessExport on an error of the export function: os.Remove(filePath)
\* unlinks whatever file has that name, and with it the file of every
\* descriptor opened under the name
ExportRemove(j) ==
    /\ j \in DOMAIN exp /\ exp[j].pc = "remove"
    /\ files' = Drop(files, {exp[j].file})
    /\ exp' = [k \in DOMAIN exp |->
                 IF k = j THEN [exp[k] EXCEPT !.pc = "fail", !.linked = FALSE]
                 ELSE IF exp[k].file = exp[j].file THEN [exp[k] EXCEPT !.linked = FALSE]
                 ELSE exp[k]]
    /\ UNCHANGED exportJobs /\ ExpFrame

\* UpdateExportJob(jobID, "completed", 100, totalRecords, downloadURL)
ExportFinal(j) ==
    /\ j \in DOMAIN exp /\ exp[j].pc = "final"
    /\ exportJobs' = UpdateExportJob(j, "completed", 100, exp[j].count,
                                     "/downloads/" \o exp[j].file)
    /\ exp' = [exp EXCEPT ![j].pc = "done"]
    /\ UNCHANGED files /\ ExpFrame

\* a runner that reports the path of the removed file with the failure
ExportFailWithURL(j) ==
    /\ j \in DOMAIN exp /\ exp[j].pc = "fail"
    /\ exportJobs' = UpdateExportJob(j, "failed", 100, exp[j].count,
                                     "/downloads/" \o exp[j].file)
    /\ exp' = [exp EXCEPT ![j].pc = "done"]
    /\ UNCHANGED files /\ ExpFrame

\* UpdateExportJob(jobID, "failed", 100, totalRecords, "")
ExportFail(j) ==
    /\ j \in DOMAIN exp /\ exp[j].pc = "fail"
    /\ exportJobs' = UpdateExportJob(j, "failed", 100, exp[j].count, "")
    /\ exp' = [exp EXCEPT ![j].pc = "done"]
    /\ UNCHANGED files /\ ExpFrame

(***************************************************************************)
(* Handler.StreamExport and Processor.StreamExport / streamUsersExport /   *)
(* streamArticlesExport / streamCommentsExport.                            *)
(***************************************************************************)
StreamFrame ==
    UNCHANGED <<now, sweeper, importJobs, exportJobs, nextId, keys, keyTime, req, imp, exp,
                db, files, snap, mrec>>

\* out is what was written to the response, processed the counter of the
\* loop, pending the number of rows written since the last flusher.Flush()
NewStream(pc) ==
    [pc |-> pc, kind |-> "", format |-> "", cursor |-> <<>>, out |-> <<>>, code |-> 0,
     processed |-> 0, pending |-> 0]

\* a loop without its "if processed%100 == 0" flush
PendingAfterRowUnflushed(processed, pending, written) == pending + written

\* the rows not yet flushed after one pass of the loop that wrote so many rows
\* and raised the counter to processed
PendingAfterRow(processed, pending, written) ==
    IF processed % FlushEvery = 0 THEN 0 ELSE pending + written

\* csvWriter.Flush() / flusher.Flush() after the loop
PendingAtReturn(pending) == 0

\* what the loop of streamUsersExport / streamArticlesExport /
\* streamCommentsExport writes for one row: the users switch has the cases csv
\* and ndjson only
StreamLines(kind, format, r) ==
    CASE kind = "users" /\ format = "csv" -> <<UserCSVRecord(r)>>
      [] kind = "users" /\ format = "ndjson" -> <<JSONLine(r)>>
      [] kind = "users" -> <<>>
      [] OTHER -> <<JSONLine(r)>>

\* the handler reads resource and format and checks isValidResourceFormat
StreamRequest(combos) ==
    /\ stream.pc = "new"
    /\ \E c \in combos :
         stream' = IF isValidResourceFormat(c[1], c[2])
                   THEN [stream EXCEPT !.pc = "query", !.kind = c[1], !.format = c[2]]
                   ELSE [stream EXCEPT !.pc = "done", !.code = 400]
    /\ StreamFrame

\* storage.GetUsers(filters) opens the cursor; the CSV header is written
StreamQuery ==
    /\ stream.pc = "query"
    /\ \E dbError \in BOOLEAN :
         stream' = IF dbError THEN [stream EXCEPT !.pc = "done", !.code = 500]
                   ELSE [stream EXCEPT !.pc = "rows",
                                       !.cursor = Rows(Table(db, stream.kind)),
                                       !.out = IF stream.kind = "users" /\ stream.format = "csv"
                                               THEN <<CSVHeader>> ELSE <<>>]
    /\ StreamFrame

\* one rows.Next() of the stream loop; after the last row rows.Err() decides
StreamRow ==
    /\ stream.pc = "rows"
    /\ \E scanError \in BOOLEAN :
         stream' =
           IF stream.cursor = <<>>
           THEN [stream EXCEPT !.pc = "done", !.code = IF scanError THEN 500 ELSE 200,
                               !.pending = PendingAtReturn(@)]
           ELSE IF scanError THEN [stream EXCEPT !.pc = "done", !.code = 500]
           ELSE LET lines == StreamLines(stream.kind, stream.format, Head(stream.cursor))
                IN [stream EXCEPT !.cursor = Tail(@), !.out = @ \o lines,
                                  !.processed = @ + 1,
                                  !.pending = PendingAfterRow(stream.processed + 1, @,
                                                              Len(lines))]
    /\ StreamFrame

(***************************************************************************)
(* JobManager.GetImportJob / GetExportJob and a caller that writes to the  *)
(* snapshot it was given.                                                  *)
(***************************************************************************)
SnapFrame ==
    UNCHANGED <<now, sweeper, nextId, keys, keyTime, req, imp, exp, db, files, stream, mrec>>

\* jobCopy := *job; jobCopy.Errors = make(...); copy(jobCopy.Errors, job.Errors)
GetImportJob(ids) ==
    /\ \E id \in ids :
         snap' = IF id \in DOMAIN importJobs
                 THEN [kind |-> "import", id |-> id, found |-> TRUE, job |-> importJobs[id],
                       writes |-> 0, atRest |-> id \in DOMAIN imp /\ imp[id].pc = "done"]
                 ELSE [NoSnap EXCEPT !.kind = "import", !.id = id]
    /\ UNCHANGED <<importJobs, exportJobs>> /\ SnapFrame

\* jobCopy := *job
GetExportJob(ids) ==
    /\ \E id \in ids :
         snap' = IF id \in DOMAIN exportJobs
                 THEN [kind |-> "export", id |-> id, found |-> TRUE, job |-> exportJobs[id],
                       writes |-> 0, atRest |-> id \in DOMAIN exp /\ exp[id].pc = "done"]
                 ELSE [NoSnap EXCEPT !.kind = "export", !.id = id]
    /\ UNCHANGED <<importJobs, exportJobs>> /\ SnapFrame

\* the parts of a snapshot its holder can write to. total is a field of the
\* copied struct. errors is the slice made by GetImportJob. filters is the map
\* the struct copy shares with the registry's job. completedAt is the field
\* of the copy, which holds a pointer; *completedAt is the time it points to,
\* which the registry's job points to as well as long as no terminal update
\* has replaced the registry's pointer (none can when the goroutine had ended)
SnapParts ==
    IF ~ snap.found THEN {}
    ELSE {"total", "completedAt"}
         \cup (IF snap.kind = "import" THEN {"errors"} ELSE {"filters"})
         \cup (IF snap.job.completedAt # <<>> /\ snap.atRest THEN {"*completedAt"} ELSE {})

\* the snapshot after a write to one of its parts
SnapAfterWrite(part) ==
    CASE part = "total" -> [snap.job EXCEPT !.total = @ + 1]
      [] part = "errors" -> [snap.job EXCEPT !.errors = Append(@, VErr(0, "client", "edited"))]
      [] part = "filters" -> [snap.job EXCEPT !.filters = Put(@, "status", "draft")]
      [] part = "completedAt" -> [snap.job EXCEPT !.completedAt = <<>>]
      [] OTHER -> [snap.job EXCEPT !.completedAt = <<now + 1>>]

\* the registry after that write: what the snapshot shares with it changes too
RegistryAfterWrite(jobs, part) ==
    IF snap.id \notin DOMAIN jobs THEN jobs
    ELSE CASE part = "filters" -> [jobs EXCEPT ![snap.id].filters = Put(@, "status", "draft")]
           [] part = "*completedAt" -> [jobs EXCEPT ![snap.id].completedAt = <<now + 1>>]
           [] OTHER -> jobs

\* the holder of the snapshot changes one part of it
SnapshotWrite ==
    /\ snap.found /\ snap.writes < MaxWrites
    /\ \E part \in SnapParts :
         /\ snap' = [snap EXCEPT !.job = SnapAfterWrite(part), !.writes = @ + 1]
         /\ importJobs' = IF snap.kind = "import" THEN RegistryAfterWrite(importJobs, part)
                          ELSE importJobs
         /\ exportJobs' = IF snap.kind = "export" THEN RegistryAfterWrite(exportJobs, part)
                          ELSE exportJobs
    /\ SnapFrame

(***************************************************************************)
(* startCleanupRoutine: the ticker and the two registry cleanups.          *)
(***************************************************************************)
\* an hour passes and ticker.C fires
Tick(maxTime) ==
    /\ now < maxTime
    /\ now' = now + 1
    /\ sweeper' = IF sweeper = "wait" THEN "jobs" ELSE sweeper
    /\ UNCHANGED <<importJobs, exportJobs, nextId, keys, keyTime, req, imp, exp, db, files, stream, snap, mrec>>

\* jobManager.CleanupOldJobs(24 * time.Hour)
CleanupOldJobs ==
    /\ sweeper = "jobs"
    /\ importJobs' = Drop(importJobs, Expired(importJobs, JobMaxAge))
    /\ exportJobs' = Drop(exportJobs, Expired(exportJobs, JobMaxAge))
    /\ sweeper' = "keys"
    /\ UNCHANGED <<now, nextId, keys, keyTime, req, imp, exp, db, files, stream, snap, mrec>>

\* IdempotencyManager.CleanupIdempotencyKeys(maxAge): the body is a comment
KeysAfterCleanup(maxAge) == keys

\* idempotencyMgr.CleanupIdempotencyKeys(1 * time.Hour); the cleanupOldFiles
\* calls that follow remove files older than 7 days and 1 day, an age no file
\* reaches within the ticks of the clock
CleanupIdempotencyKeys ==
    /\ sweeper = "keys"
    /\ keys' = KeysAfterCleanup(KeyMaxAge)
    /\ keyTime' = [k \in DOMAIN keys' |-> keyTime[k]]
    /\ sweeper' = "wait"
    /\ UNCHANGED <<now, importJobs, exportJobs, nextId, req, imp, exp, db, files, stream, snap, mrec>>

(***************************************************************************)
(* Specifications.                                                         *)
(***************************************************************************)
InitCommon ==
    /\ now = 0 /\ sweeper = "wait"
    /\ importJobs = <<>> /\ exportJobs = <<>> /\ nextId = 0
    /\ keys = <<>> /\ keyTime = <<>>
    /\ imp = <<>> /\ exp = <<>>
    /\ db \in {EmptyDb, SeedDb}
    /\ files = <<>> /\ stream = NewStream("off") /\ snap = NoSnap /\ mrec = NoRec

\* Spec: one job, an import or an export, with files of up to MaxRows lines,
\* and the cleanup routine
Init ==
    /\ InitCommon
    /\ req = [r \in ReqIds |-> IF r = 1 THEN NewReq("", "new") ELSE NewReq("", "off")]

Pipelines(ids, limit) ==
    \/ \E j \in ids : ImportStart(j)
    \/ \E j \in ids : ImportMark(j)
    \/ \E j \in ids : ImportOpen(j)
    \/ \E j \in ids : ImportRead(j, limit)
    \/ \E j \in ids : ImportValidate(j)
    \/ \E j \in ids : ImportInsert(j)
    \/ \E j \in ids : ImportProgress(j)
    \/ \E j \in ids : ImportFinal(j)
    \/ \E j \in ids : ImportFail(j)

Next ==
    \/ \E r \in ReqIds : ReqCheck(r)
    \/ \E r \in ReqIds : ReqBody(r, Combos)
    \/ \E r \in ReqIds : ReqCreate(r, JobIds)
    \/ \E r \in ReqIds : ReqSpawn(r)
    \/ \E r \in ReqIds : ReqRespond(r)
    \/ Pipelines(JobIds, MaxRows)
    \/ CreateExportJob(JobIds, ExportCombos)
    \/ \E j \in JobIds : ExportStart(j)
    \/ \E j \in JobIds : ExportMark(j)
    \/ \E j \in JobIds : ExportCount(j)
    \/ \E j \in JobIds : ExportCreate(j)
    \/ \E j \in JobIds : ExportQuery(j)
    \/ \E j \in JobIds : ExportRow(j)
    \/ \E j \in JobIds : ExportRemove(j)
    \/ \E j \in JobIds : ExportFinal(j)
    \/ \E j \in JobIds : ExportFail(j)
    \/ Tick(MaxTime)
    \/ CleanupOldJobs
    \/ CleanupIdempotencyKeys

Spec == Init /\ [][Next]_vars

\* SpecIdem: two POST /v1/imports with the same Idempotency-Key, files without
\* data lines (the batch steps of the pipeline are never enabled), and the
\* cleanup routine
IdemCombos == { <<"users", "csv">>, <<"users", "xml">> }

InitIdem ==
    /\ InitCommon
    /\ req = [r \in ReqIds |-> NewReq("k1", "new")]

NextIdem ==
    \/ \E r \in ReqIds : ReqCheck(r)
    \/ \E r \in ReqIds : ReqLookup(r)
    \/ \E r \in ReqIds : ReqBody(r, IdemCombos)
    \/ \E r \in ReqIds : ReqCreate(r, JobIdsIdem)
    \/ \E r \in ReqIds : ReqSetKey(r)
    \/ \E r \in ReqIds : ReqSpawn(r)
    \/ \E r \in ReqIds : ReqRespond(r)
    \/ \E j \in JobIdsIdem : ImportStart(j)
    \/ \E j \in JobIdsIdem : ImportMark(j)
    \/ \E j \in JobIdsIdem : ImportOpen(j)
    \/ \E j \in JobIdsIdem : ImportRead(j, 0)
    \/ \E j \in JobIdsIdem : ImportFinal(j)
    \/ \E j \in JobIdsIdem : ImportFail(j)
    \/ Tick(MaxTimeIdem)
    \/ CleanupOldJobs
    \/ CleanupIdempotencyKeys

SpecIdem == InitIdem /\ [][NextIdem]_vars

\* SpecCancel: JobProcessor.ProcessImportJob called for a pending job with a
\* context its caller can cancel
Cancel(j) ==
    /\ j \in DOMAIN imp /\ ~ imp[j].cancelled /\ imp[j].pc # "done"
    /\ imp' = [imp EXCEPT ![j].cancelled = TRUE]
    /\ UNCHANGED <<importJobs, db>> /\ ImpFrame

InitCancel ==
    /\ now = 0 /\ sweeper = "wait"
    /\ \E c \in { <<"users", "csv">>, <<"articles", "ndjson">>, <<"comments", "ndjson">> } :
         /\ importJobs = <<NewImportJob(c[1])>>
         /\ imp = <<NewImp(c[2])>>
    /\ exportJobs = <<>> /\ nextId = 1
    /\ keys = <<>> /\ keyTime = <<>> /\ exp = <<>>
    /\ db \in {EmptyDb, SeedDb}
    /\ req = [r \in ReqIds |-> NewReq("", "off")]
    /\ files = <<>> /\ stream = NewStream("off") /\ snap = NoSnap /\ mrec = NoRec

NextCancel ==
    \/ Pipelines(JobIds, MaxRows)
    \/ \E j \in JobIds : Cancel(j)

SpecCancel == InitCancel /\ [][NextCancel]_vars

\* SpecErrors: one import job and a caller of UpdateImportJob that delivers
\* errors in calls of any size up to MaxCall, numbered in delivery order
DeliverErrors(j, n) ==
    /\ j \in DOMAIN imp /\ imp[j].pc = "loop"
    /\ imp[j].rowNumber + n <= MaxDelivered
    /\ importJobs' = UpdateImportJob(j, "processing", 0, 0, 0, n,
                        [i \in 1..n |-> VErr(imp[j].rowNumber + i, "json", "decode")])
    /\ imp' = [imp EXCEPT ![j].rowNumber = @ + n]
    /\ UNCHANGED db /\ ImpFrame

InitErrors ==
    /\ now = 0 /\ sweeper = "wait"
    /\ importJobs = <<NewImportJob("articles")>> /\ exportJobs = <<>> /\ nextId = 1
    /\ keys = <<>> /\ keyTime = <<>>
    /\ imp = <<[NewImp("ndjson") EXCEPT !.pc = "loop", !.kind = "articles"]>> /\ exp = <<>>
    /\ db = EmptyDb
    /\ req = [r \in ReqIds |-> NewReq("", "off")]
    /\ files = <<>> /\ stream = NewStream("off") /\ snap = NoSnap /\ mrec = NoRec

NextErrors == \E n \in 0..MaxCall : DeliverErrors(1, n)

SpecErrors == InitErrors /\ [][NextErrors]_vars

\* SpecStore: two import jobs of one resource type started together, writing to
\* the same table; the file of the first has up to MaxRowsEach lines, the file
\* of the second one line less
InitStore ==
    /\ now = 0 /\ sweeper = "wait"
    /\ \E c \in { <<"users", "csv">>, <<"articles", "ndjson">>, <<"comments", "ndjson">> } :
         /\ importJobs = <<NewImportJob(c[1]), NewImportJob(c[1])>>
         /\ imp = <<NewImp(c[2]), NewImp(c[2])>>
    /\ exportJobs = <<>> /\ nextId = 2
    /\ keys = <<>> /\ keyTime = <<>> /\ exp = <<>>
    /\ db \in {EmptyDb, SeedDb}
    /\ req = [r \in ReqIds |-> NewReq("", "off")]
    /\ files = <<>> /\ stream = NewStream("off") /\ snap = NoSnap /\ mrec = NoRec

NextStore ==
    \/ Pipelines({1}, MaxRowsEach)
    \/ Pipelines({2}, MaxRowsEach - 1)

SpecStore == InitStore /\ [][NextStore]_vars

(***************************************************************************)
(* processUsersCSV on the cells of a file: the header, csv.Reader.Read and *)
(* parseUserFromCSV.                                                       *)
(***************************************************************************)
\* strings.TrimSpace on the cells that occur
TrimSpace(cell) ==
    CASE cell = " Bea " -> "Bea"
      [] cell = " " -> ""
      [] OTHER -> cell

\* strconv.ParseBool
ParseBool(cell) ==
    CASE cell \in {"1", "t", "T", "TRUE", "true", "True"} -> [ok |-> TRUE, v |-> TRUE]
      [] cell \in {"0", "f", "F", "FALSE", "false", "False"} -> [ok |-> TRUE, v |-> FALSE]
      [] OTHER -> [ok |-> FALSE, v |-> FALSE]

\* time.Parse(time.RFC3339, cell)
ParseTime(cell) ==
    CASE cell = "0001-01-01T00:00:00Z" -> [ok |-> TRUE, v |-> "zero"]
      [] cell = "2024-01-01T00:00:00Z" -> [ok |-> TRUE, v |-> "t0"]
      [] cell = "2024-02-01T00:00:00Z" -> [ok |-> TRUE, v |-> "t1"]
      [] cell = "2024-03-01T00:00:00Z" -> [ok |-> TRUE, v |-> "now"]
      [] OTHER -> [ok |-> FALSE, v |-> "zero"]

\* "for i, col := range header { colIndex[col] = i }"
ColIndex(header) ==
    [c \in {header[i] : i \in 1..Len(header)} |->
        CHOOSE i \in 1..Len(header) :
            header[i] = c /\ \A k \in (i + 1)..Len(header) : header[k] # c]

\* Processor.parseUserFromCSV: the user and the error ("" is nil)
parseUserFromCSV(record, colIndex) ==
    LET has(c) == c \in DOMAIN colIndex /\ colIndex[c] <= Len(record)
        cell(c) == TrimSpace(record[colIndex[c]])
        str(c) == IF has(c) THEN cell(c) ELSE ""
        bool(c) == IF has(c) THEN ParseBool(cell(c)) ELSE [ok |-> TRUE, v |-> FALSE]
        time(c) == IF has(c) THEN ParseTime(cell(c)) ELSE [ok |-> TRUE, v |-> "zero"]
        user == [id |-> str("id"), email |-> str("email"), name |-> str("name"),
                 role |-> str("role"), active |-> bool("active").v,
                 createdAt |-> time("created_at").v, updatedAt |-> time("updated_at").v]
    IN CASE ~ bool("active").ok -> [err |-> "invalid active value", user |-> user]
         [] ~ time("created_at").ok -> [err |-> "invalid created_at value", user |-> user]
         [] ~ time("updated_at").ok -> [err |-> "invalid updated_at value", user |-> user]
         [] OTHER -> [err |-> "", user |-> user]

\* users as the validator hands them to the store
Originals ==
    { [id |-> "u1", email |-> "a@x.io", name |-> "Al", role |-> "admin", active |-> TRUE,
       createdAt |-> "t0", updatedAt |-> "now"],
      [id |-> "u2", email |-> "b@x.io", name |-> "Bea", role |-> "reader", active |-> FALSE,
       createdAt |-> "t1", updatedAt |-> "now"],
      [id |-> "u2", email |-> "b@x.io", name |-> " Bea ", role |-> "manager", active |-> TRUE,
       createdAt |-> "now", updatedAt |-> "now"] }

\* the headers a users file can start with, and the records that can follow a
\* header of n columns (csv.Reader rejects a record of another length)
Headers == { CSVHeader, <<"email", "name", "role">> }
CsvRecords(n) ==
    IF n = Len(CSVHeader)
    THEN {UserCSVRecord(o) : o \in Originals} \cup
         { <<"", "a@x.io", "Ann", "admin", "", "2024-01-01T00:00:00Z", "2024-01-01T00:00:00Z">>,
           <<"", "b@x.io", "Bob", "reader", "true", "", "">>,
           <<"", "b@x.io", "Bob", "reader", "yes", "2024-01-01T00:00:00Z", "">> }
    ELSE { <<"a@x.io", "Ann", "admin">>, <<"b@x.io", "", "reader">> }

\* processUsersCSV up to the loop: the header is read and indexed
ImportOpenCSV(j) ==
    /\ j \in DOMAIN imp /\ imp[j].pc = "open"
    /\ imp[j].kind = "users" /\ imp[j].format = "csv"
    /\ \E header \in Headers \cup {<<>>} :
         imp' = [imp EXCEPT ![j] =
                   IF header = <<>> THEN [@ EXCEPT !.pc = "fail", !.err = "header"]
                   ELSE [@ EXCEPT !.pc = "loop", !.rowNumber = 1,
                                  !.colIndex = ColIndex(header), !.before = db]]
    /\ UNCHANGED <<importJobs, db>> /\ ImpFrame

\* one iteration of the loop of processUsersCSV on a record of the file
ImportReadCSV(j, limit) ==
    /\ j \in DOMAIN imp /\ imp[j].pc = "loop"
    /\ LET p == imp[j]
           records == CsvRecords(Cardinality(DOMAIN p.colIndex))
       IN \E o \in {"eof", "csverr", "record"} : \E record \in records :
         LET res == parseUserFromCSV(record, p.colIndex)
             out == IF o = "record" /\ res.err # "" THEN "parseerr" ELSE o
         IN
         /\ o # "record" => record = CHOOSE x \in records : TRUE
         /\ o # "eof" => LinesRead(p) < limit
         /\ imp' = [imp EXCEPT ![j] =
              CASE Interrupted(p, out) ->
                     [@ EXCEPT !.pc = "fail", !.err = "cancelled"]
                [] out = "eof" ->
                     [@ EXCEPT !.eof = TRUE, !.pc = IF p.batch # <<>> THEN "validate" ELSE "final"]
                [] out = "csverr" ->
                     [@ EXCEPT !.rowNumber = @ + 1, !.decRejected = @ + 1]
                [] out = "parseerr" ->
                     [@ EXCEPT !.rowNumber = @ + 1, !.totalProcessed = @ + 1,
                               !.decRejected = @ + 1, !.read = Append(@, record)]
                [] OTHER ->
                     [@ EXCEPT !.rowNumber = @ + 1, !.totalProcessed = @ + 1,
                               !.batch = Append(@, res.user),
                               !.pc = AfterRow(Append(p.batch, res.user)),
                               !.lines = Append(@, p.rowNumber + 1),
                               !.read = Append(@, record)]]
         /\ importJobs' =
              IF out \in {"eof", "record"} \/ Interrupted(p, out) THEN importJobs
              ELSE UpdateImportJob(j, "processing", 0, p.totalProcessed, p.totalValid, 1,
                     <<VErr(p.rowNumber + 1,
                            IF out = "csverr" THEN "csv" ELSE "parsing",
                            IF out = "csverr" THEN "decode" ELSE res.err)>>)
    /\ UNCHANGED db /\ ImpFrame

\* SpecCsv: a users CSV import of up to MaxRowsEach records, given cell by
\* cell, followed by a streaming export of users as CSV
InitCsv ==
    /\ now = 0 /\ sweeper = "wait"
    /\ importJobs = <<NewImportJob("users")>> /\ imp = <<NewImp("csv")>>
    /\ exportJobs = <<>> /\ nextId = 1
    /\ keys = <<>> /\ keyTime = <<>> /\ exp = <<>>
    /\ db \in {EmptyDb, SeedDb}
    /\ req = [r \in ReqIds |-> NewReq("", "off")]
    /\ files = <<>> /\ stream = NewStream("new") /\ snap = NoSnap /\ mrec = NoRec

\* the client asks for the users as CSV once its import has finished
StreamAfterImport ==
    /\ \A j \in DOMAIN imp : imp[j].pc = "done"
    /\ StreamRequest({ <<"users", "csv">> })

NextCsv ==
    \/ \E j \in JobIds : ImportStart(j)
    \/ \E j \in JobIds : ImportMark(j)
    \/ \E j \in JobIds : ImportOpenCSV(j)
    \/ \E j \in JobIds : ImportReadCSV(j, MaxRowsEach)
    \/ \E j \in JobIds : ImportValidate(j)
    \/ \E j \in JobIds : ImportInsert(j)
    \/ \E j \in JobIds : ImportProgress(j)
    \/ \E j \in JobIds : ImportFinal(j)
    \/ \E j \in JobIds : ImportFail(j)
    \/ StreamAfterImport
    \/ StreamQuery
    \/ StreamRow

SpecCsv == InitCsv /\ [][NextCsv]_vars

\* SpecExport: one async export job, started with a context its caller can
\* cancel, and one streaming export request, over a store that does not change
CancelExport(j) ==
    /\ j \in DOMAIN exp /\ ~ exp[j].cancelled /\ exp[j].pc # "done"
    /\ exp' = [exp EXCEPT ![j].cancelled = TRUE]
    /\ UNCHANGED <<exportJobs, files>> /\ ExpFrame

InitExport ==
    /\ now = 0 /\ sweeper = "wait"
    /\ importJobs = <<>> /\ exportJobs = <<>> /\ nextId = 0
    /\ keys = <<>> /\ keyTime = <<>>
    /\ imp = <<>> /\ exp = <<>>
    /\ db \in {EmptyDb, SeedDb, FullDb, LongDb}
    /\ req = [r \in ReqIds |-> NewReq("", "off")]
    /\ files = <<>> /\ stream = NewStream("new") /\ snap = NoSnap /\ mrec = NoRec

NextExport ==
    \/ CreateExportJob(JobIds, AllExportCombos)
    \/ \E j \in JobIds : ExportStart(j)
    \/ \E j \in JobIds : ExportMark(j)
    \/ \E j \in JobIds : ExportCount(j)
    \/ \E j \in JobIds : ExportCreate(j)
    \/ \E j \in JobIds : ExportQuery(j)
    \/ \E j \in JobIds : ExportRow(j)
    \/ \E j \in JobIds : ExportRemove(j)
    \/ \E j \in JobIds : ExportFinal(j)
    \/ \E j \in JobIds : ExportFail(j)
    \/ \E j \in JobIds : CancelExport(j)
    \/ StreamRequest(AllExportCombos)
    \/ StreamQuery
    \/ StreamRow

SpecExport == InitExport /\ [][NextExport]_vars

(***************************************************************************)
(* Properties of the job registry and the import pipeline (Spec).          *)
(***************************************************************************)

\* C1: in every reachable state of every import job and every export job,
\* the status is completed or failed if and only if completed_at is set.
C1_TerminalIffCompletedAt ==
    /\ \A j \in DOMAIN importJobs :
         (importJobs[j].status \in Terminal) <=> (importJobs[j].completedAt # <<>>)
    /\ \A j \in DOMAIN exportJobs :
         (exportJobs[j].status \in Terminal) <=> (exportJobs[j].completedAt # <<>>)

\* an import job has failed and carries its completion time
C1_Witness ==
    \E j \in DOMAIN importJobs :
        importJobs[j].status = "failed" /\ importJobs[j].completedAt = <<now>>

\* C2: from one snapshot of an import job to the next, total_records,
\* valid_records, error_records and progress never decrease, whichever update
\* of the pipeline lies between them.
C2_SnapshotsNeverDecrease ==
    [][\A j \in DOMAIN importJobs \cap DOMAIN importJobs' :
         /\ importJobs'[j].total >= importJobs[j].total
         /\ importJobs'[j].valid >= importJobs[j].valid
         /\ importJobs'[j].errorRecords >= importJobs[j].errorRecords
         /\ importJobs'[j].progress >= importJobs[j].progress]_vars

\* C3: in every reachable state of every import job,
\* valid_records + error_records is at most total_records.
C3_ValidPlusErrorAtMostTotal ==
    \A j \in DOMAIN importJobs :
        importJobs[j].valid + importJobs[j].errorRecords <= importJobs[j].total

\* C4: for every import job and every export job, progress is 100 if and only
\* if the status is completed or failed; while pending or processing it is
\* below 100.
C4_ProgressHundredIffTerminal ==
    /\ \A j \in DOMAIN importJobs :
         /\ (importJobs[j].progress = 100) <=> (importJobs[j].status \in Terminal)
         /\ importJobs[j].status \notin Terminal => importJobs[j].progress < 100
    /\ \A j \in DOMAIN exportJobs :
         /\ (exportJobs[j].progress = 100) <=> (exportJobs[j].status \in Terminal)
         /\ exportJobs[j].status \notin Terminal => exportJobs[j].progress < 100

\* an import job is processing and a full batch has been reported
C4_Witness ==
    \E j \in DOMAIN importJobs :
        /\ importJobs[j].status = "processing"
        /\ importJobs[j].progress > 0
        /\ importJobs[j].total >= BatchSize

\* C5: once an import or export job is completed or failed, no step changes
\* its status, its counters or its completed_at; it can only be removed, and
\* only by the sweeper's CleanupOldJobs.
C5_TerminalJobsAreFrozen ==
    [][/\ \A j \in DOMAIN importJobs :
            importJobs[j].status \in Terminal =>
              IF j \in DOMAIN importJobs'
              THEN /\ importJobs'[j].status = importJobs[j].status
                   /\ importJobs'[j].total = importJobs[j].total
                   /\ importJobs'[j].valid = importJobs[j].valid
                   /\ importJobs'[j].errorRecords = importJobs[j].errorRecords
                   /\ importJobs'[j].completedAt = importJobs[j].completedAt
              ELSE sweeper = "jobs" /\ sweeper' = "keys"
       /\ \A j \in DOMAIN exportJobs :
            exportJobs[j].status \in Terminal =>
              IF j \in DOMAIN exportJobs'
              THEN /\ exportJobs'[j].status = exportJobs[j].status
                   /\ exportJobs'[j].total = exportJobs[j].total
                   /\ exportJobs'[j].completedAt = exportJobs[j].completedAt
              ELSE sweeper = "jobs" /\ sweeper' = "keys"]_vars

\* the pipeline of a terminal import job has returned, and an hour has passed
\* since the job reached its terminal status
C5_Witness ==
    \E j \in DOMAIN importJobs \cap DOMAIN imp :
        /\ importJobs[j].status \in Terminal
        /\ imp[j].pc = "done"
        /\ importJobs[j].completedAt # <<>>
        /\ now > importJobs[j].completedAt[1]

\* C6: an import whose input is read to the end without a persistence error
\* ends completed if at least one record was persisted, failed if none was
\* persisted and at least one row was rejected by the decoder or by the
\* validator, and completed with all counters zero if the input has no rows.
C6_FinalStatusFollowsRejections ==
    \A j \in DOMAIN imp \cap DOMAIN importJobs :
        LET p == imp[j]
            job == importJobs[j]
        IN (p.pc = "done" /\ p.eof /\ p.err = "") =>
             /\ p.totalValid > 0 => job.status = "completed"
             /\ (p.totalValid = 0 /\ (p.decRejected > 0 \/ Len(p.verrs) > 0)) =>
                  job.status = "failed"
             /\ LinesRead(p) = 0 =>
                  /\ job.status = "completed"
                  /\ job.total = 0 /\ job.valid = 0 /\ job.errorRecords = 0

\* C7: when a batch upsert returns an error, the pipeline stops (no retry, no
\* later batch), the job becomes failed, and exactly one error with field
\* "general" is added, at the end of the job's error list.
C7_InsertErrorFailsJob ==
    \A j \in DOMAIN imp :
        imp[j].err = "insert" =>
          /\ imp[j].pc \in {"fail", "done"}
          /\ (imp[j].pc = "done" /\ j \in DOMAIN importJobs) =>
               LET errors == importJobs[j].errors IN
               /\ importJobs[j].status = "failed"
               /\ Cardinality({i \in 1..Len(errors) : errors[i].field = "general"}) = 1
               /\ errors[Len(errors)].field = "general"

\* a batch insert failed after an earlier batch had been committed, and the
\* job has been marked failed
C7_Witness ==
    \E j \in DOMAIN imp \cap DOMAIN importJobs :
        /\ imp[j].err = "insert" /\ imp[j].pc = "done"
        /\ imp[j].totalValid > 0
        /\ importJobs[j].status = "failed"

(***************************************************************************)
(* Properties of the idempotency ledger (SpecIdem).                        *)
(***************************************************************************)

\* no job has been removed from the registry
NonePruned == DOMAIN importJobs = 1..nextId

\* C8 as stated: two POST /v1/imports with the same Idempotency-Key create
\* exactly one import job and both responses carry its id, in every
\* interleaving of their ledger-check, job-creation and ledger-insert steps.
C8_OneJobInEveryInterleaving ==
    \A r1 \in ReqIds : \A r2 \in ReqIds \ {r1} :
        (/\ req[r1].key # "" /\ req[r1].key = req[r2].key
         /\ req[r1].pc = "done" /\ req[r1].code \in {200, 202}
         /\ req[r2].pc = "done" /\ req[r2].code \in {200, 202}
         /\ NonePruned)
        => nextId = 1 /\ req[r1].jobID = req[r2].jobID

\* C8, amended: of two POST /v1/imports with the same Idempotency-Key, a
\* request whose ledger check finds the key (it runs after the other request's
\* ledger insert) creates no job and is answered 200 with the id of the other
\* request's job, so that exactly one job exists, as long as no job has been
\* pruned.
C8_OneJobAfterLedgerHit ==
    \A r1 \in ReqIds : \A r2 \in ReqIds \ {r1} :
        (/\ req[r1].key # "" /\ req[r1].key = req[r2].key
         /\ req[r1].hit /\ req[r1].pc = "done"
         /\ NonePruned)
        => /\ req[r1].code = 200
           /\ nextId = 1
           /\ req[r1].jobID = req[r2].jobID

\* a request found the key while the other request had not been answered yet
C8_Witness ==
    \E r1 \in ReqIds : \E r2 \in ReqIds \ {r1} :
        /\ req[r1].hit /\ ~ req[r1].seq
        /\ req[r1].pc = "done" /\ req[r1].code = 200
        /\ req[r2].pc = "done" /\ req[r2].code = 202
        /\ NonePruned

\* C9: a second POST /v1/imports with the same Idempotency-Key, issued after
\* the first was answered with job J, and answered while J is in the registry,
\* creates no job: it returns 200 with J's id and J's current status, and J is
\* the only job created for the key.
C9_SequentialRetryReturnsJob ==
    [][\A r \in ReqIds : \A r1 \in ReqIds \ {r} :
         (/\ req[r].seq /\ req[r].pc # "done" /\ req'[r].pc = "done"
          /\ req[r1].key = req[r].key /\ req[r1].pc = "done" /\ req[r1].code = 202
          /\ req[r1].jobID \in DOMAIN importJobs)
         => /\ req'[r].code = 200
            /\ req'[r].jobID = req[r1].jobID
            /\ req'[r].respStatus = importJobs[req[r1].jobID].status
            /\ importJobs' = importJobs
            /\ nextId' = 1]_vars

\* the retry has been answered 200 with the status of a job that had already
\* failed
C9_Witness ==
    \E r \in ReqIds : \E r1 \in ReqIds \ {r} :
        /\ req[r].seq /\ req[r].pc = "done" /\ req[r].code = 200
        /\ req[r].jobID = req[r1].jobID
        /\ req[r].respStatus = "failed"

\* C10: after the sweeper has run the ledger cleanup with max_age, no entry
\* older than max_age remains in the ledger.
C10_CleanupRemovesOldKeys ==
    [][(sweeper = "keys" /\ sweeper' = "wait") =>
         \A k \in DOMAIN keys' : ~ (keyTime'[k] < now' - KeyMaxAge)]_vars

\* C13: within one import job every batch handed to the store holds at most
\* BatchSize (1000) records, batches are committed in input order with the
\* rows of a batch in input order, and an input of exactly BatchSize + 1
\* valid rows gives exactly two commits: the first BatchSize rows, then the
\* last row.
C13_BatchesInInputOrder ==
    \A j \in DOMAIN imp :
        LET p == imp[j]
            c == p.commits
        IN /\ Len(p.batch) <= BatchSize /\ Len(p.valid) <= BatchSize
           /\ Len(p.vlines) = Len(p.valid)
           /\ \A b \in 1..Len(c) :
                /\ Len(c[b]) <= BatchSize
                /\ \A i \in 1..Len(c[b]) : \A k \in 1..Len(c[b]) : i < k => c[b][i] < c[b][k]
                /\ \A b2 \in 1..Len(c) : b < b2 =>
                      \A i \in 1..Len(c[b]) : \A k \in 1..Len(c[b2]) : c[b][i] < c[b2][k]
           /\ (p.pc = "done" /\ p.eof /\ p.err = "" /\ LinesRead(p) = BatchSize + 1
               /\ p.totalValid = BatchSize + 1) =>
                LET first == p.rowNumber - BatchSize
                IN c = << [i \in 1..BatchSize |-> first + i - 1], <<p.rowNumber>> >>

\* an input of BatchSize + 1 valid rows has been imported in two commits
C13_Witness ==
    \E j \in DOMAIN imp :
        /\ imp[j].pc = "done" /\ imp[j].eof /\ imp[j].err = ""
        /\ LinesRead(imp[j]) = BatchSize + 1 /\ imp[j].totalValid = BatchSize + 1
        /\ Len(imp[j].commits) = 2

\* C14: a batch upsert is all-or-nothing: when writing a batch fails, the
\* store is left as it was before the batch, so none of its rows is visible
\* and the rows of the batches committed earlier stay; the store does not
\* change afterwards on behalf of that job.
C14_BatchIsAtomic ==
    [][\A j \in DOMAIN imp :
         /\ (imp[j].pc = "insert" /\ imp'[j].err = "insert") => db' = db
         /\ imp[j].err = "insert" => db' = db]_vars

\* a batch has failed after an earlier batch of the job was committed
C14_Witness ==
    \E j \in DOMAIN imp :
        /\ imp[j].err = "insert" /\ imp[j].pc = "fail"
        /\ Len(imp[j].commits) >= 1
        /\ db # EmptyDb

\* C15: a POST /v1/imports whose (kind, format) is not (users, csv),
\* (articles, ndjson) or (comments, ndjson) is answered 400 at the request
\* boundary: it never gets as far as creating a job, writing a ledger entry,
\* starting a pipeline or being accepted with 202.
C15_UnsupportedComboRejected ==
    \A r \in ReqIds :
        (\/ req[r].pc \in {"create", "setkey", "spawn", "respond"}
         \/ req[r].pc = "done" /\ req[r].code = 202)
        => <<req[r].kind, req[r].format>> \in
             { <<"users", "csv">>, <<"articles", "ndjson">>, <<"comments", "ndjson">> }

\* C17: a record that fails validation is never handed to the store, and it
\* does not keep the other records of its batch, or later batches, from being
\* validated and persisted: the validator hands on exactly the records of
\* the batch it accepts, and the pipeline goes on.
C17_InvalidRecordsSkipped ==
    [][\A j \in DOMAIN imp :
         (imp[j].pc = "validate" /\ imp'[j].pc # "validate") =>
           LET p == imp[j]
               q == imp'[j]
               ok == {i \in 1..Len(p.batch) :
                        ValidateRecord(p.kind, db, p.batch[i], i) = <<>>}
           IN /\ Len(q.valid) = Cardinality(ok)
              /\ \A k \in 1..Len(q.valid) :
                   \E i \in ok : \E row \in 0..(MaxRows + 1) :
                       q.valid[k] = Defaulted(p.kind, p.batch[i], j, row)
              /\ q.err = "" /\ q.pc \in {"insert", "progress", "final"}
              /\ ok # {} => q.pc = "insert"]_vars

\* one batch held a rejected record and an accepted one, and the accepted one
\* has been persisted
C17_Witness ==
    \E j \in DOMAIN imp :
        /\ imp[j].pc = "done" /\ imp[j].err = "" /\ imp[j].decRejected = 0
        /\ LinesRead(imp[j]) = BatchSize
        /\ imp[j].totalValid >= 1 /\ Len(imp[j].verrs) >= 1
        /\ Len(imp[j].commits) = 1

\* C18: when an import job is terminal after its input was read to the end,
\* valid_records is the number of rows persisted, error_records is the number
\* of rows rejected by the decoder or the validator (each row once), and
\* valid_records + error_records = total_records.
C18_CountersAddUp ==
    \A j \in DOMAIN imp \cap DOMAIN importJobs :
        LET p == imp[j]
            job == importJobs[j]
        IN (p.pc = "done" /\ p.eof /\ p.err = "" /\ job.status \in Terminal) =>
             /\ job.valid = p.totalValid
             /\ job.errorRecords = LinesRead(p) - p.totalValid
             /\ job.valid + job.errorRecords = job.total

\* C19: in a users CSV import every ValidationError, from the decoder or from
\* the validator, carries the physical line of its row, the header being
\* line 1, also when the decoder skipped other rows of the batch.
C19_ErrorsCarryPhysicalLine ==
    [][\A j \in DOMAIN imp \cap DOMAIN importJobs :
         LET p == imp[j]
             q == imp'[j]
         IN (p.kind = "users" /\ p.format = "csv") =>
              /\ (p.pc = "validate" /\ q.pc # "validate") =>
                   \A k \in (Len(p.verrs) + 1)..Len(q.verrs) :
                       \E i \in 1..Len(p.batch) :
                           /\ q.verrs[k].row = p.lines[i]
                           /\ \E n \in 1..Len(ValidateUser(db, p.batch[i], p.lines[i])) :
                                  ValidateUser(db, p.batch[i], p.lines[i])[n] = q.verrs[k]
              /\ (p.pc = "loop" /\ q.decRejected > p.decRejected) =>
                   LET errors == importJobs'[j].errors
                   IN errors # <<>> /\ errors[Len(errors)].row = q.rowNumber]_vars

\* C20: every stored article's author_id is the id of a stored user and every
\* stored comment's article_id and user_id are the ids of a stored article and
\* a stored user; a row whose reference is missing when it is validated gets
\* an error on that field and is not handed to the store.
C20_ReferencesExist ==
    [][/\ \A a \in db'.articles : UserExists(db', a.authorID)
       /\ \A c \in db'.comments : ArticleExists(db', c.articleID) /\ UserExists(db', c.userID)
       /\ \A j \in DOMAIN imp :
            (imp[j].pc = "validate" /\ imp'[j].pc # "validate") =>
              LET p == imp[j]
                  q == imp'[j]
                  new == {q.verrs[k].field : k \in (Len(p.verrs) + 1)..Len(q.verrs)}
              IN /\ \A i \in 1..Len(p.batch) :
                      LET r == p.batch[i] IN
                      /\ (p.kind = "articles" /\ r.authorID # "" /\ ~ UserExists(db, r.authorID))
                           => "author_id" \in new
                      /\ (p.kind = "comments" /\ r.articleID # "" /\ ~ ArticleExists(db, r.articleID))
                           => "article_id" \in new
                      /\ (p.kind = "comments" /\ r.userID # "" /\ ~ UserExists(db, r.userID))
                           => "user_id" \in new
                 /\ \A k \in 1..Len(q.valid) :
                      LET r == q.valid[k] IN
                      /\ p.kind = "articles" => UserExists(db, r.authorID)
                      /\ p.kind = "comments" =>
                           ArticleExists(db, r.articleID) /\ UserExists(db, r.userID)]_vars

\* an article whose author is missing was rejected, and an article of a stored
\* author has been committed
C20_Witness ==
    \E j \in DOMAIN imp :
        /\ imp[j].kind = "articles" /\ imp[j].pc = "done"
        /\ \E k \in 1..Len(imp[j].verrs) : imp[j].verrs[k].field = "author_id"
        /\ imp[j].totalValid >= 1
        /\ Len(imp[j].commits) >= 1
        /\ \E a \in db.articles : a.slug = "s-1" /\ UserExists(db, a.authorID)

\* how often e occurs in the sequence seq
Occurrences(seq, e) == Cardinality({i \in 1..Len(seq) : seq[i] = e})

\* C37: for an import whose rejected rows produce at most 1000 validation
\* errors in total, the job's final error list contains each validation
\* error exactly once, however many batches the input spans; the pipeline's
\* per-batch and final updates do not add an error that the list already
\* holds.
C37_EachValidationErrorOnce ==
    \A j \in DOMAIN imp \cap DOMAIN importJobs :
        (imp[j].pc = "done" /\ imp[j].err = ""
           /\ Len(imp[j].verrs) + imp[j].decRejected <= maxErrors) =>
            \A i \in 1..Len(imp[j].verrs) :
                Occurrences(importJobs[j].errors, imp[j].verrs[i])
                    = Occurrences(imp[j].verrs, imp[j].verrs[i])

\* the part of C37 that holds: an import that ends before its first batch is
\* full makes one update only, and its list holds each error once
ErrorsOnceWithinOneBatch ==
    \A j \in DOMAIN imp \cap DOMAIN importJobs :
        (imp[j].pc = "done" /\ imp[j].err = "" /\ imp[j].totalProcessed < BatchSize
           /\ Len(imp[j].verrs) + imp[j].decRejected <= maxErrors) =>
            \A i \in 1..Len(imp[j].verrs) :
                Occurrences(importJobs[j].errors, imp[j].verrs[i]) = 1

(***************************************************************************)
(* Cancellation of a running import (SpecCancel).                          *)
(***************************************************************************)

\* C16 as stated: when a running import is cancelled through its context,
\* the job is not moved to a terminal status: it stays in processing and its
\* counters keep the values they had when the cancellation was observed.
C16_CancelledJobStaysProcessing ==
    [][\A j \in DOMAIN imp \cap DOMAIN importJobs :
         imp[j].err = "cancelled" =>
           /\ importJobs'[j].status = "processing"
           /\ importJobs'[j].total = importJobs[j].total
           /\ importJobs'[j].valid = importJobs[j].valid
           /\ importJobs'[j].errorRecords = importJobs[j].errorRecords]_vars

\* C16, amended: when the read loop of a running import observes that its
\* context is cancelled, the pipeline returns at once: the rows of the current
\* batch are never written and no later batch is committed, while the batches
\* committed before stay; the job runner then marks the job failed with
\* progress 100 and one error with field "general" at the end of the list.
C16_CancelFailsJob ==
    [][\A j \in DOMAIN imp' :
         imp'[j].err = "cancelled" =>
           /\ imp'[j].pc \in {"fail", "done"}
           /\ db' = db /\ imp'[j].commits = imp[j].commits
           /\ (imp'[j].pc = "done" /\ j \in DOMAIN importJobs') =>
                LET job == importJobs'[j] IN
                /\ job.status = "failed" /\ job.progress = 100
                /\ Cardinality({i \in 1..Len(job.errors) : job.errors[i].field = "general"}) = 1
                /\ job.errors[Len(job.errors)].field = "general"]_vars

\* a cancellation was observed with a batch committed and a row of the next
\* batch read, and the job has been marked failed
C16_Witness ==
    \E j \in DOMAIN imp \cap DOMAIN importJobs :
        /\ imp[j].err = "cancelled" /\ imp[j].pc = "done"
        /\ Len(imp[j].commits) >= 1 /\ imp[j].batch # <<>>
        /\ importJobs[j].status = "failed"

\* C35: once the cancellation signal of an import is set, the pipeline
\* dispatches no further batch to the store: the signal is observed at each
\* row iteration and again before each batch dispatch, including the final
\* partial batch after end-of-input, and the batch being filled at that
\* moment is discarded.
C35_NoDispatchAfterCancel ==
    [][\A j \in DOMAIN imp :
         (imp[j].cancelled /\ imp[j].pc # "insert") =>
             /\ imp'[j].pc # "insert"
             /\ imp'[j].commits = imp[j].commits]_vars

\* the part of C35 that holds: the loop of a users CSV import selects on the
\* signal at the top of every iteration, the one that meets end-of-input
\* included, and returns without touching the batch
CancelObservedByCSVLoop ==
    [][\A j \in DOMAIN imp :
         (imp[j].cancelled /\ imp[j].pc = "loop" /\ imp[j].kind = "users"
            /\ imp'[j] # imp[j]) =>
             imp'[j].pc = "fail" /\ imp'[j].err = "cancelled"]_vars

\* the same for every kind: not so for the NDJSON loops, which leave through
\* decoder.More() at end-of-input and process the final batch
CancelObservedByEveryLoop ==
    [][\A j \in DOMAIN imp :
         (imp[j].cancelled /\ imp[j].pc = "loop" /\ imp'[j] # imp[j]) =>
             imp'[j].pc = "fail" /\ imp'[j].err = "cancelled"]_vars

(***************************************************************************)
(* Properties of the error list of a job (SpecErrors).                     *)
(***************************************************************************)

\* C11: after any sequence of UpdateImportJob calls, with any number of
\* errors per call, the error list of a job never holds more than maxErrors
\* (1000) entries.
C11_ErrorListCapped ==
    \A j \in DOMAIN importJobs : Len(importJobs[j].errors) <= maxErrors

\* more errors than the cap have been delivered and the list is full
C11_Witness ==
    \E j \in DOMAIN importJobs \cap DOMAIN imp :
        imp[j].rowNumber > maxErrors /\ Len(importJobs[j].errors) = maxErrors

\* C12: once more than maxErrors (1000) errors have been delivered to a job,
\* its error list is the first ErrHalf (500) errors ever delivered followed by
\* the ErrHalf most recently delivered ones, whatever the size of each call.
C12_FirstHalfThenLatestHalf ==
    \A j \in DOMAIN importJobs \cap DOMAIN imp :
        LET n == imp[j].rowNumber
            errors == importJobs[j].errors
        IN n > maxErrors =>
             [i \in 1..Len(errors) |-> errors[i].row]
               = [i \in 1..maxErrors |-> IF i <= ErrHalf THEN i ELSE n - maxErrors + i]


(***************************************************************************)
(* Properties of the stored rows (Spec).                                   *)
(***************************************************************************)

\* C21: every article an import persists has no published_at when its status
\* is draft and has one when its status is published (filled in at validation
\* when the payload left it out); a draft row that carries published_at is
\* rejected with an error on that field while the other rows proceed.
C21_PublishedAtFollowsStatus ==
    [][/\ \A a \in db'.articles :
            /\ a.status = "draft" => ~ a.pub
            /\ a.status = "published" => a.pub
       /\ \A j \in DOMAIN imp :
            (imp[j].kind = "articles" /\ imp[j].pc = "validate" /\ imp'[j].pc # "validate") =>
              LET p == imp[j]
                  q == imp'[j]
                  new == {q.verrs[k] : k \in (Len(p.verrs) + 1)..Len(q.verrs)}
                  ok == {i \in 1..Len(p.batch) : ValidateArticle(db, p.batch[i], i) = <<>>}
              IN /\ \A i \in 1..Len(p.batch) :
                      (p.batch[i].status = "draft" /\ p.batch[i].pub) =>
                          /\ i \notin ok
                          /\ \E e \in new : e.field = "published_at"
                 /\ Len(q.valid) = Cardinality(ok)
                 /\ \A k \in 1..Len(q.valid) :
                      /\ q.valid[k].status = "draft" => ~ q.valid[k].pub
                      /\ q.valid[k].status = "published" => q.valid[k].pub
                 /\ ok # {} => q.pc = "insert"]_vars

\* an import rejected a draft row for its published_at only, and persisted a
\* published row of the same payload whose published_at the payload left out
C21_Witness ==
    \E j \in DOMAIN imp :
        /\ imp[j].kind = "articles" /\ imp[j].pc = "done" /\ imp[j].err = ""
        /\ Len(imp[j].verrs) = 1 /\ imp[j].verrs[1].field = "published_at"
        /\ imp[j].totalValid >= 1
        /\ \E a \in db.articles : a.slug = "s-1" /\ a.status = "published" /\ a.pub


\* the natural key of a row: users upsert on email, articles on slug,
\* comments on id
NaturalKey(kind, r) ==
    CASE kind = "users" -> r.email
      [] kind = "articles" -> r.slug
      [] OTHER -> r.id

\* C23: when an upserted row hits an existing natural key, every non-key field
\* of the stored row takes the value of the incoming row: after a batch is
\* committed, the stored row of each key of the batch equals the last row of
\* the batch with that key.
C23_StoredRowIsLastPayloadRow ==
    [][\A j \in DOMAIN imp :
         (imp[j].pc = "insert" /\ Len(imp'[j].commits) > Len(imp[j].commits)) =>
           LET p == imp[j] IN
           \A i \in 1..Len(p.valid) :
               (\A k \in (i + 1)..Len(p.valid) :
                    NaturalKey(p.kind, p.valid[k]) # NaturalKey(p.kind, p.valid[i]))
                 => p.valid[i] \in Table(db', p.kind)]_vars

\* C24: a user row gets the error "email already exists" exactly when its id
\* is non-empty and its email is in the store when the row is validated; a row
\* with an empty id whose email is stored, and which has no other fault, is
\* accepted and upserted onto the stored row.  The article rule is the same
\* with slug in place of email.
C24_UniquenessRuleNeedsId ==
    [][\A j \in DOMAIN imp :
         LET p == imp[j]
             q == imp'[j]
         IN /\ (p.kind \in {"users", "articles"} /\ p.pc = "validate" /\ q.pc # "validate") =>
                 LET startRow == p.totalProcessed - Len(p.batch)
                     msg == IF p.kind = "users" THEN "email already exists"
                            ELSE "slug already exists"
                     stored(r) == IF p.kind = "users" THEN EmailExists(db, r.email)
                                  ELSE SlugExists(db, r.slug)
                     said(i) == \E k \in (Len(p.verrs) + 1)..Len(q.verrs) :
                                    q.verrs[k].row = startRow + i /\ q.verrs[k].msg = msg
                 IN \A i \in 1..Len(p.batch) :
                        /\ said(i) <=> (p.batch[i].id # "" /\ stored(p.batch[i]))
                        /\ (p.batch[i].id = "" /\ stored(p.batch[i])
                              /\ ValidateRecord(p.kind, EmptyDb, p.batch[i], i) = <<>>)
                             => \E k \in 1..Len(q.valid) :
                                    NaturalKey(p.kind, q.valid[k]) = NaturalKey(p.kind, p.batch[i])
            /\ (p.kind \in {"users", "articles"} /\ p.pc = "insert"
                  /\ Len(q.commits) > Len(p.commits)) =>
                 \A i \in 1..Len(p.valid) : \A o \in Table(db, p.kind) :
                     NaturalKey(p.kind, o) = NaturalKey(p.kind, p.valid[i]) =>
                         \E n \in Table(db', p.kind) :
                             /\ n.id = o.id
                             /\ NaturalKey(p.kind, n) = NaturalKey(p.kind, o)
                             /\ \A m \in Table(db', p.kind) :
                                    NaturalKey(p.kind, m) = NaturalKey(p.kind, o) => m = n]_vars

\* a users import has finished on a store that held a@x.io: the row with an id
\* was rejected for its email, and the row without an id was accepted and has
\* overwritten the stored row, which keeps its id
C24_Witness ==
    \E j \in DOMAIN imp :
        /\ imp[j].kind = "users" /\ imp[j].pc = "done"
        /\ \E k \in 1..Len(imp[j].verrs) : imp[j].verrs[k].msg = "email already exists"
        /\ imp[j].totalValid >= 1
        /\ \E u \in db.users : u.id = "u1" /\ u.email = "a@x.io" /\ ~ u.active

\* an articles import has finished on a store that held slug s-1: the row with
\* an id was rejected for its slug, and the row without an id was accepted and
\* has overwritten the stored row, which keeps its id
C24_WitnessArticles ==
    \E j \in DOMAIN imp :
        /\ imp[j].kind = "articles" /\ imp[j].pc = "done"
        /\ \E k \in 1..Len(imp[j].verrs) : imp[j].verrs[k].msg = "slug already exists"
        /\ imp[j].totalValid >= 1
        /\ \E a \in db.articles : a.id = "a1" /\ a.slug = "s-1" /\ a.status = "published"

(***************************************************************************)
(* Properties of the store under two imports (SpecStore).                  *)
(***************************************************************************)

\* C22: after any sequence of batch upserts, from one job or from two jobs
\* running together, no two stored users share an email, no two stored
\* articles share a slug and no two stored comments share an id, also when
\* one payload holds several rows with the same natural key.
C22_NaturalKeysUnique ==
    /\ \A u, v \in db.users : u.email = v.email => u = v
    /\ \A a, b \in db.articles : a.slug = b.slug => a = b
    /\ \A c, d \in db.comments : c.id = d.id => c = d

\* two users imports have finished; the first committed two rows in one
\* batch, the second one row, and the three rows are one stored user
C22_Witness ==
    /\ imp[1].kind = "users" /\ imp[1].pc = "done" /\ imp[2].pc = "done"
    /\ Len(imp[1].commits) = 1 /\ Len(imp[1].commits[1]) = 2
    /\ imp[2].totalValid = 1
    /\ Cardinality(db.users) = 1


(***************************************************************************)
(* Properties of exports (Spec, SpecExport).                               *)
(***************************************************************************)

\* C28: in every reachable state of every export job, download_url is
\* non-empty if and only if the status of the job is completed.
C28_DownloadURLIffCompleted ==
    \A j \in DOMAIN exportJobs :
        (exportJobs[j].downloadURL # "") <=> (exportJobs[j].status = "completed")

\* an export job is completed and carries the path of its file
C28_Witness ==
    \E j \in DOMAIN exportJobs \cap DOMAIN exp :
        /\ exportJobs[j].status = "completed"
        /\ exportJobs[j].downloadURL = "/downloads/" \o exp[j].file
        /\ exp[j].file \in DOMAIN files

\* C29: whenever an async export ends with an error (the query fails, a row
\* cannot be scanned, the context is cancelled), the file it created is no
\* longer in the export directory; a file is in the directory only for an
\* export that is still running or has succeeded.
C29_FailedExportLeavesNoFile ==
    /\ \A j \in DOMAIN exp \cap DOMAIN exportJobs :
         exportJobs[j].status = "failed" => exp[j].file \notin DOMAIN files
    /\ \A name \in DOMAIN files :
         \E j \in DOMAIN exp \cap DOMAIN exportJobs :
             /\ exp[j].file = name
             /\ exp[j].pc \in {"query", "rows", "remove", "final"}
                  \/ exportJobs[j].status = "completed"

\* an export was cancelled after it had written a row, and has been marked
\* failed
C29_Witness ==
    \E j \in DOMAIN exp \cap DOMAIN exportJobs :
        /\ exportJobs[j].status = "failed" /\ exp[j].pc = "done"
        /\ exp[j].cancelled /\ exp[j].processed >= 1 /\ exp[j].file # ""

\* C30: for the same kind and format over an unchanged store, the streaming
\* export and the async export emit the same sequence of lines, for every
\* kind/format pair the request layer accepts.
C30_StreamEqualsFile ==
    \A j \in DOMAIN exp \cap DOMAIN exportJobs :
        (/\ exportJobs[j].status = "completed"
         /\ stream.pc = "done" /\ stream.code = 200
         /\ stream.kind = exp[j].kind /\ stream.format = exp[j].format)
          => /\ exp[j].file \in DOMAIN files
             /\ files[exp[j].file] = stream.out


\* C36: during a streaming export, the number of rows serialised but not yet
\* flushed to the response never exceeds 100, and every serialised row has
\* been flushed when the export returns without error.
C36_StreamFlushedEvery100 ==
    /\ stream.pending <= FlushEvery
    /\ (stream.pc = "done" /\ stream.code = 200) => stream.pending = 0

\* an export of more rows than FlushEvery has returned: the loop flushed once
\* and the row after that was flushed at the end
C36_Witness ==
    /\ stream.pc = "done" /\ stream.code = 200
    /\ stream.processed > FlushEvery /\ stream.processed % FlushEvery # 0
    /\ Len(stream.out) > FlushEvery /\ stream.pending = 0

(***************************************************************************)
(* Properties of the users CSV decoder and the round trip (SpecCsv).       *)
(***************************************************************************)

\* the field of a user that a CSV column fills, and the zero value of it
FieldOf(user, c) ==
    CASE c = "id" -> user.id
      [] c = "email" -> user.email
      [] c = "name" -> user.name
      [] c = "role" -> user.role
      [] c = "active" -> FormatBool(user.active)
      [] c = "created_at" -> user.createdAt
      [] OTHER -> user.updatedAt
ZeroOf(c) ==
    CASE c = "active" -> FormatBool(FALSE)
      [] c \in {"created_at", "updated_at"} -> "zero"
      [] OTHER -> ""

\* every cell of the record that is not empty is well formed
NonEmptyCellsParse(record, colIndex) ==
    \A c \in DOMAIN colIndex :
        LET cell == TrimSpace(record[colIndex[c]]) IN
        cell # "" =>
            /\ c = "active" => ParseBool(cell).ok
            /\ c \in {"created_at", "updated_at"} => ParseTime(cell).ok

\* C26: in a users CSV import, a row whose cell for a present column is empty
\* (including active, created_at and updated_at) is decoded with the zero
\* value of that field and added to the batch, not reported as a parsing
\* error; columns missing from the header are left at their zero values too.
C26_EmptyCellsAreZeroValues ==
    [][\A j \in DOMAIN imp :
         LET p == imp[j]
             q == imp'[j]
         IN (p.pc = "loop" /\ Len(q.read) = Len(p.read) + 1) =>
              LET record == q.read[Len(q.read)] IN
              NonEmptyCellsParse(record, p.colIndex) =>
                  /\ importJobs' = importJobs
                  /\ Len(q.batch) = Len(p.batch) + 1
                  /\ \A i \in 1..Len(CSVHeader) :
                         LET c == CSVHeader[i] IN
                         (c \notin DOMAIN p.colIndex \/ TrimSpace(record[p.colIndex[c]]) = "")
                           => FieldOf(q.batch[Len(q.batch)], c) = ZeroOf(c)]_vars

\* the part of C26 that holds: with a header that lacks columns, the fields of
\* the missing columns are left at their zero values and the row is batched
C26_MissingColumnsAreZeroValues ==
    [][\A j \in DOMAIN imp :
         LET p == imp[j]
             q == imp'[j]
         IN (p.pc = "loop" /\ Len(q.read) = Len(p.read) + 1
               /\ DOMAIN p.colIndex = {"email", "name", "role"}) =>
              /\ importJobs' = importJobs
              /\ Len(q.batch) = Len(p.batch) + 1
              /\ \A c \in {"id", "active", "created_at", "updated_at"} :
                     FieldOf(q.batch[Len(q.batch)], c) = ZeroOf(c)]_vars


\* the originals whose serialised form the import has read
ImportedOriginals(j) ==
    {o \in Originals : \E i \in 1..Len(imp[j].read) : imp[j].read[i] = UserCSVRecord(o)}

\* the import of a file of serialised users has ended without cancellation
\* or persistence error, and the streaming export after it has ended with 200
RoundTripDone(j) ==
    /\ imp[j].pc = "done" /\ imp[j].err = ""
    /\ imp[j].read # <<>>
    /\ DOMAIN imp[j].colIndex = {CSVHeader[i] : i \in 1..Len(CSVHeader)}
    /\ \A i \in 1..Len(imp[j].read) : \E o \in Originals : imp[j].read[i] = UserCSVRecord(o)
    /\ stream.pc = "done" /\ stream.code = 200

\* a row of the response carries id, email, name, role and active of o
Preserved(o) ==
    \E i \in 1..Len(stream.out) :
        SubSeq(stream.out[i], 1, 5) = SubSeq(UserCSVRecord(o), 1, 5)

\* C25: for any set of users the validator can produce, importing their
\* CSV-serialised form and then streaming-exporting users as CSV yields rows
\* that include every original user with the same id, email, name, role and
\* active, whatever the store held before the import.
C25_RoundTripPreservesUsers ==
    \A j \in DOMAIN imp :
        RoundTripDone(j) => \A o \in ImportedOriginals(j) : Preserved(o)

\* the round trip on a store that holds none of the payload's ids and emails,
\* for a payload of distinct emails whose fields carry no surrounding spaces
FreshKeys(j) ==
    LET P == ImportedOriginals(j) IN
    /\ \A o \in P : \A c \in {"id", "email", "name", "role"} :
           TrimSpace(FieldOf(o, c)) = FieldOf(o, c)
    /\ \A o \in P : \A u \in imp[j].before.users : u.id # o.id /\ u.email # o.email
    /\ \A o1, o2 \in P : o1.email = o2.email => o1 = o2
    /\ Len(imp[j].read) = Cardinality(P)
RoundTripOnFreshKeys ==
    \A j \in DOMAIN imp :
        (RoundTripDone(j) /\ FreshKeys(j)) => \A o \in ImportedOriginals(j) : Preserved(o)
RoundTripOnFreshKeysReached ==
    \E j \in DOMAIN imp :
        RoundTripDone(j) /\ FreshKeys(j) /\ Cardinality(ImportedOriginals(j)) = 2


(***************************************************************************)
(* SpecLive: one import job whose goroutine keeps running: the pipeline    *)
(* takes a step whenever it can, and nobody cancels its context.           *)
(***************************************************************************)
InitLive == InitCancel

NextLive == Pipelines(JobIds, MaxRows)

SpecLive == InitLive /\ [][NextLive]_vars /\ WF_vars(NextLive)

\* the job has a terminal status
Ended(j) == importJobs[j].status \in Terminal

\* C27: every import of a finite input that is neither cancelled nor hit by a
\* persistence error eventually reaches a terminal status, also when the
\* input contains malformed NDJSON lines: each malformed line adds one error
\* with field json, counts toward total_records, is not batched, and the
\* lines after it are still processed.
C27_ImportTerminates ==
    <>(\A j \in DOMAIN imp : Ended(j))

\* the decoder of an import that does not end has met a line that is not JSON:
\* it repeats the same failing turn without end, of which the model counts
\* the turns up to MaxRows and then stays at the loop
TerminatesUnlessSyntaxError ==
    <>(\A j \in DOMAIN imp : Ended(j) \/ imp[j].stuck)

\* a line of well-formed JSON of the wrong type adds one json error, counts
\* as processed, is not batched, and the loop goes on with the next line
TypeErrorLineIsSkipped ==
    [][\A j \in DOMAIN imp :
         LET p == imp[j]
             q == imp'[j]
         IN (p.pc = "loop" /\ p.kind # "users" /\ ~ p.stuck /\ ~ q.stuck
                /\ q.decRejected = p.decRejected + 1) =>
              /\ q.totalProcessed = p.totalProcessed + 1
              /\ q.batch = p.batch /\ q.pc = "loop"
              /\ (Len(importJobs[j].errors) < maxErrors =>
                    /\ Len(importJobs'[j].errors) = Len(importJobs[j].errors) + 1
                    /\ importJobs'[j].errors[Len(importJobs'[j].errors)].field = "json")]_vars


(***************************************************************************)
(* Properties of the registry under the cleanup routine (SpecIdem, Spec).  *)
(***************************************************************************)
\* jobs' is jobs without exactly the entries created before now - maxAge
PrunedExactly(jobs, jobsAfter, maxAge) ==
    /\ DOMAIN jobsAfter = {id \in DOMAIN jobs : ~ (jobs[id].createdAt < now - maxAge)}
    /\ \A id \in DOMAIN jobsAfter : jobsAfter[id] = jobs[id]

\* C31: cleanup_old(max_age) removes exactly the import and export jobs whose
\* created_at is older than now minus max_age, whatever their status
\* (including jobs still processing), and leaves every other job and every
\* field of it unchanged.
C31_CleanupRemovesExactlyOldJobs ==
    [][(sweeper = "jobs" /\ sweeper' = "keys") =>
          /\ PrunedExactly(importJobs, importJobs', JobMaxAge)
          /\ PrunedExactly(exportJobs, exportJobs', JobMaxAge)]_vars

\* the cleanup has run, a job whose pipeline had not ended is gone from the
\* registry and a younger job is still there
C31_Witness ==
    /\ sweeper = "keys"
    /\ \E j \in DOMAIN imp : j \notin DOMAIN importJobs /\ imp[j].pc \notin {"start", "done"}
    /\ \E k \in DOMAIN importJobs : importJobs[k].createdAt = now


\* the count a stats map reports for status s (an absent entry reads as 0)
Reported(stats, s) == IF s \in DOMAIN stats THEN stats[s] ELSE 0

\* the sum of the entries of a stats map
RECURSIVE SumOf(_, _)
SumOf(stats, S) ==
    IF S = {} THEN 0
    ELSE LET s == CHOOSE x \in S : TRUE IN stats[s] + SumOf(stats, S \ {s})

StatsMatch(stats, total, jobs) ==
    /\ \A s \in Statuses \cup DOMAIN stats :
           Reported(stats, s) = Cardinality({id \in DOMAIN jobs : jobs[id].status = s})
    /\ SumOf(stats, DOMAIN stats) = total
    /\ total = Cardinality(DOMAIN jobs)

\* C33: at any instant, stats() reports for imports and for exports a count
\* per status that equals the number of registry jobs currently in that
\* status, and the per-status counts sum to the reported totals, also while
\* pipelines and the sweeper run concurrently.
C33_StatsMatchRegistry ==
    /\ StatsMatch(GetJobStats.import_jobs, GetJobStats.total_import_jobs, importJobs)
    /\ StatsMatch(GetJobStats.export_jobs, GetJobStats.total_export_jobs, exportJobs)

\* two jobs are in one status while the pipeline of one of them runs and the
\* sweeper is between its two cleanups
C33_Witness ==
    /\ \E s \in Statuses : Reported(GetJobStats.import_jobs, s) = 2
    /\ \E j \in DOMAIN imp : imp[j].pc \notin {"start", "done"}
    /\ sweeper = "keys"

(***************************************************************************)
(* SpecSnap: an import job (of a file without data lines) and an export   *)
(* job run while a caller takes snapshots of them and writes to the        *)
(* snapshot it holds.                                                      *)
(***************************************************************************)
ExportIds == {2}

InitSnap ==
    /\ now = 0 /\ sweeper = "wait"
    /\ importJobs = <<NewImportJob("users")>> /\ imp = <<NewImp("csv")>>
    /\ exportJobs = <<>> /\ nextId = 1
    /\ keys = <<>> /\ keyTime = <<>> /\ exp = <<>>
    /\ db \in {EmptyDb, SeedDb}
    /\ req = [r \in ReqIds |-> NewReq("", "off")]
    /\ files = <<>> /\ stream = NewStream("off") /\ snap = NoSnap /\ mrec = NoRec

NextSnap ==
    \/ \E j \in JobIds : ImportStart(j)
    \/ \E j \in JobIds : ImportMark(j)
    \/ \E j \in JobIds : ImportOpen(j)
    \/ \E j \in JobIds : ImportRead(j, 0)
    \/ \E j \in JobIds : ImportFinal(j)
    \/ \E j \in JobIds : ImportFail(j)
    \/ CreateExportJob(ExportIds, { <<"users", "csv">> })
    \/ \E j \in ExportIds : ExportStart(j)
    \/ \E j \in ExportIds : ExportMark(j)
    \/ \E j \in ExportIds : ExportCount(j)
    \/ \E j \in ExportIds : ExportCreate(j)
    \/ \E j \in ExportIds : ExportQuery(j)
    \/ \E j \in ExportIds : ExportRow(j)
    \/ \E j \in ExportIds : ExportRemove(j)
    \/ \E j \in ExportIds : ExportFinal(j)
    \/ \E j \in ExportIds : ExportFail(j)
    \/ GetImportJob(JobIds)
    \/ GetExportJob(ExportIds)
    \/ SnapshotWrite

SpecSnap == InitSnap /\ [][NextSnap]_vars

\* C32: a snapshot returned by get_import_job or get_export_job is a
\* defensive copy: changing any part of it (counters, the error list, the
\* filter mapping, completed_at) never changes what the registry holds or
\* what a later get returns.
C32_SnapshotIsDefensiveCopy ==
    [][snap'.writes = snap.writes + 1 =>
          importJobs' = importJobs /\ exportJobs' = exportJobs]_vars

\* the parts of C32 that hold: a write to a counter, to the error list or to
\* the completed_at field of the snapshot leaves the registry as it is
SnapshotValueFieldsAreCopies ==
    [][(snap'.writes = snap.writes + 1
          /\ \E part \in {"total", "errors", "completedAt"} :
                 part \in SnapParts /\ snap'.job = SnapAfterWrite(part)) =>
          importJobs' = importJobs /\ exportJobs' = exportJobs]_vars


(***************************************************************************)
(* SpecModels: GenerateID and SetTimestamps called, in any order and any   *)
(* number of times up to MaxCalls, on one record of package models.        *)
(***************************************************************************)
\* the ids uuid.New can return to the calls on the record
FreshUUIDs == {"g1", "g2"}

\* the fields of User, Article and Comment the two methods read or write;
\* a Comment has no UpdatedAt, which is kept at the zero time here
ModelRecs(kind) ==
    {[id |-> i, createdAt |-> c, updatedAt |-> u] :
        i \in {"", "u1"}, c \in Times \ {"now"},
        u \in IF kind = "comments" THEN {"zero"} ELSE Times \ {"now"}}

SetTimestamps(kind, r) ==
    IF kind = "comments" THEN SetCommentTimestamps(r) ELSE SetUserTimestamps(r)

ModelFrame ==
    UNCHANGED <<now, sweeper, importJobs, exportJobs, nextId, keys, keyTime, req, imp, exp,
                db, files, stream, snap>>

CallGenerateID ==
    /\ mrec.kind # "none" /\ Len(mrec.calls) < MaxCalls
    /\ \E uuid \in FreshUUIDs :
         mrec' = [mrec EXCEPT !.r = GenerateID(@, uuid), !.calls = Append(@, "GenerateID")]
    /\ ModelFrame

CallSetTimestamps ==
    /\ mrec.kind # "none" /\ Len(mrec.calls) < MaxCalls
    /\ mrec' = [mrec EXCEPT !.r = SetTimestamps(mrec.kind, @),
                            !.calls = Append(@, "SetTimestamps")]
    /\ ModelFrame

InitModels ==
    /\ now = 0 /\ sweeper = "wait"
    /\ importJobs = <<>> /\ exportJobs = <<>> /\ nextId = 0
    /\ keys = <<>> /\ keyTime = <<>>
    /\ imp = <<>> /\ exp = <<>> /\ db = EmptyDb
    /\ req = [r \in ReqIds |-> NewReq("", "off")]
    /\ files = <<>> /\ stream = NewStream("off") /\ snap = NoSnap
    /\ \E kind \in {"users", "articles", "comments"} : \E r \in ModelRecs(kind) :
         mrec = [kind |-> kind, r |-> r, given |-> r, calls |-> <<>>]

NextModels == CallGenerateID \/ CallSetTimestamps

SpecModels == InitModels /\ [][NextModels]_vars

\* the last call made on the record
LastCall(m) == IF m.calls = <<>> THEN "" ELSE m.calls[Len(m.calls)]

\* C34: GenerateID leaves every record with a non-empty id and never changes
\* an id that was already set (applying it twice equals applying it once);
\* SetTimestamps sets created_at only when it is zero, always sets updated_at
\* for users and articles, and for comments sets only created_at.
C34_GenerateIDAndSetTimestamps ==
    [][/\ (Len(mrec'.calls) = Len(mrec.calls) + 1 /\ LastCall(mrec') = "GenerateID") =>
            /\ mrec'.r.id # ""
            /\ mrec.r.id # "" => mrec'.r = mrec.r
            /\ mrec'.r.createdAt = mrec.r.createdAt /\ mrec'.r.updatedAt = mrec.r.updatedAt
       /\ (Len(mrec'.calls) = Len(mrec.calls) + 1 /\ LastCall(mrec') = "SetTimestamps") =>
            /\ mrec'.r.id = mrec.r.id
            /\ mrec'.r.createdAt = (IF mrec.r.createdAt = "zero" THEN "now" ELSE mrec.r.createdAt)
            /\ mrec'.r.updatedAt = (IF mrec.kind = "comments" THEN mrec.r.updatedAt ELSE "now")]_vars

\* GenerateID has been called twice on a record given without an id, and
\* SetTimestamps on a record given with a created_at
C34_Witness ==
    /\ mrec.kind # "none" /\ mrec.given.id = "" /\ mrec.given.createdAt # "zero"
    /\ mrec.calls = <<"GenerateID", "GenerateID", "SetTimestamps">>
    /\ mrec.r.id # "" /\ mrec.r.createdAt = mrec.given.createdAt


(***************************************************************************)
(* SpecTwoExports: two async exports of users as CSV, created within the   *)
(* same second, over a store that does not change.                          *)
(***************************************************************************)
InitTwoExports ==
    /\ now = 0 /\ sweeper = "wait"
    /\ importJobs = <<>> /\ exportJobs = <<>> /\ nextId = 0
    /\ keys = <<>> /\ keyTime = <<>>
    /\ imp = <<>> /\ exp = <<>>
    /\ db \in {SeedDb, FullDb}
    /\ req = [r \in ReqIds |-> NewReq("", "off")]
    /\ files = <<>> /\ stream = NewStream("off") /\ snap = NoSnap /\ mrec = NoRec

NextTwoExports ==
    \/ CreateExportJob(JobIdsIdem, { <<"users", "csv">> })
    \/ \E j \in JobIdsIdem : ExportStart(j)
    \/ \E j \in JobIdsIdem : ExportMark(j)
    \/ \E j \in JobIdsIdem : ExportCount(j)
    \/ \E j \in JobIdsIdem : ExportCreate(j)
    \/ \E j \in JobIdsIdem : ExportQuery(j)
    \/ \E j \in JobIdsIdem : ExportRow(j)
    \/ \E j \in JobIdsIdem : ExportRemove(j)
    \/ \E j \in JobIdsIdem : ExportFinal(j)
    \/ \E j \in JobIdsIdem : ExportFail(j)

SpecTwoExports == InitTwoExports /\ [][NextTwoExports]_vars

\* the lines of a finished export of kind and format over the store
RECURSIVE LinesOf(_, _, _)
LinesOf(kind, format, cursor) ==
    IF cursor = <<>> THEN <<>>
    ELSE ExportLines(kind, format, Head(cursor)) \o LinesOf(kind, format, Tail(cursor))
ExpectedFile(kind, format) ==
    (IF kind = "users" /\ format = "csv" THEN <<CSVHeader>> ELSE <<>>)
      \o LinesOf(kind, format, Rows(Table(db, kind)))

\* C38: two async export jobs of the same kind and format started within the
\* same second do not interfere: each job that ends completed has a
\* download_url naming a file that exists and holds exactly that job's rows,
\* also when the other job fails or finishes later.
C38_SameSecondExportsDoNotInterfere ==
    \A j \in DOMAIN exp \cap DOMAIN exportJobs :
        exportJobs[j].status = "completed" =>
            /\ exportJobs[j].downloadURL = "/downloads/" \o exp[j].file
            /\ exp[j].file \in DOMAIN files
            /\ files[exp[j].file] = ExpectedFile(exp[j].kind, exp[j].format)

\* the part of C38 that holds: as long as no other job has been created, the
\* file of a completed job exists and holds the job's rows
SingleExportFileIsComplete ==
    \A j \in DOMAIN exp \cap DOMAIN exportJobs :
        (exportJobs[j].status = "completed" /\ DOMAIN exp = {j}) =>
            /\ exp[j].file \in DOMAIN files
            /\ files[exp[j].file] = ExpectedFile(exp[j].kind, exp[j].format)


(***************************************************************************)
(* SpecPrune: one import and up to two exports run while the cleanup       *)
(* routine prunes the registry (JobMaxAge hours after a job's creation,    *)
(* whatever its pipeline is doing).                                         *)
(***************************************************************************)
NextPrune ==
    \/ \E r \in ReqIds : ReqCheck(r)
    \/ \E r \in ReqIds : ReqBody(r, IdemCombos)
    \/ \E r \in ReqIds : ReqCreate(r, JobIdsIdem)
    \/ \E r \in ReqIds : ReqSpawn(r)
    \/ \E r \in ReqIds : ReqRespond(r)
    \/ \E j \in JobIdsIdem : ImportStart(j)
    \/ \E j \in JobIdsIdem : ImportMark(j)
    \/ \E j \in JobIdsIdem : ImportOpen(j)
    \/ \E j \in JobIdsIdem : ImportRead(j, 0)
    \/ \E j \in JobIdsIdem : ImportFinal(j)
    \/ \E j \in JobIdsIdem : ImportFail(j)
    \/ CreateExportJob(JobIdsIdem, { <<"users", "csv">> })
    \/ \E j \in JobIdsIdem : ExportStart(j)
    \/ \E j \in JobIdsIdem : ExportMark(j)
    \/ \E j \in JobIdsIdem : ExportCount(j)
    \/ \E j \in JobIdsIdem : ExportCreate(j)
    \/ \E j \in JobIdsIdem : ExportQuery(j)
    \/ \E j \in JobIdsIdem : ExportRow(j)
    \/ \E j \in JobIdsIdem : ExportRemove(j)
    \/ \E j \in JobIdsIdem : ExportFinal(j)
    \/ \E j \in JobIdsIdem : ExportFail(j)
    \/ Tick(MaxTimeIdem)
    \/ CleanupOldJobs
    \/ CleanupIdempotencyKeys

SpecPrune == Init /\ [][NextPrune]_vars

\* the pipeline of job j has been started and the registry holds no job j
PrunedImport(j) == j \in DOMAIN imp /\ j \notin DOMAIN importJobs
PrunedExport(j) == j \in DOMAIN exp /\ j \notin DOMAIN exportJobs

\* C39: when the cleanup routine has removed a job whose pipeline is still
\* running, no later step recreates the job (a get of its id keeps finding
\* nothing), and the updates its pipeline makes for the absent id leave both
\* registries as they are.
C39_UpdateAfterPruneIsNoOp ==
    [][ /\ \A j \in DOMAIN imp :
             PrunedImport(j) =>
                /\ j \notin DOMAIN importJobs'
                /\ (imp'[j] # imp[j] => importJobs' = importJobs /\ exportJobs' = exportJobs)
        /\ \A j \in DOMAIN exp :
             PrunedExport(j) =>
                /\ j \notin DOMAIN exportJobs'
                /\ (exp'[j] # exp[j] => importJobs' = importJobs /\ exportJobs' = exportJobs)
      ]_vars

\* an import whose job was pruned after its pipeline had read the job has made
\* its final update, while the registry holds an export that has completed
C39_Witness ==
    /\ \E j \in DOMAIN imp :
         PrunedImport(j) /\ imp[j].pc = "done" /\ imp[j].kind # ""
    /\ \E k \in DOMAIN exportJobs : exportJobs[k].status = "completed"

\* the same case for an export: its job was pruned after the pipeline had read
\* it, and the pipeline has ended
PrunedExportEnded ==
    \E j \in DOMAIN exp : PrunedExport(j) /\ exp[j].pc = "done" /\ exp[j].kind # ""

\* C40: a POST /v1/imports whose Idempotency-Key is in the ledger while the
\* job recorded for it has been pruned is not answered from the ledger: the
\* handler goes on to the body, the job it creates is a new one, and its
\* SetIdempotency leaves the ledger mapping the key to the new job id.
C40_PrunedKeyCreatesNewJob ==
    [][ \A r \in ReqIds :
          req'[r] # req[r] =>
            /\ (req[r].pc = "lookup" /\ req[r].jobID \notin DOMAIN importJobs) =>
                  req'[r].pc = "body" /\ req'[r].code = 0
            /\ (req[r].hit /\ req[r].pc = "create") =>
                  /\ req'[r].jobID \notin DOMAIN importJobs
                  /\ req'[r].jobID \in DOMAIN importJobs'
                  /\ req[r].key \in DOMAIN keys => keys[req[r].key] # req'[r].jobID
            /\ (req[r].hit /\ req[r].pc = "setkey") =>
                  /\ req[r].key \in DOMAIN keys'
                  /\ keys'[req[r].key] = req[r].jobID
      ]_vars

\* a request that found its key in the ledger has been answered 202 with a
\* new job, and the ledger maps the key to that job
C40_Witness ==
    \E r \in ReqIds :
        /\ req[r].hit /\ req[r].pc = "done" /\ req[r].code = 202
        /\ req[r].key \in DOMAIN keys /\ keys[req[r].key] = req[r].jobID


====
